---- MODULE Spec2Model ----
(***************************************************************************)
(* TrustBuild mobile shell (App.tsx, config.ts, services/storage.ts,       *)
(* services/notifications.ts): the navigation policy of the WebView, the   *)
(* message bridge between the hosted web application and the shell, the   *)
(* functions the injected bridge script wraps inside the page, and the     *)
(* interface of the shell: page loads, error and retry, the back button,   *)
(* the navigation state and initializeApp.                                 *)
(*                                                                         *)
(* Strings are sequences of tokens.  A token stands for a fixed run of     *)
(* characters ("https:", "//", "www", ".", "trustbuild", ...); no token is *)
(* a concatenation of others and "." is always its own token, so           *)
(* startsWith / endsWith / === on the token sequences agree with the       *)
(* JavaScript string operations on the strings they spell.                 *)
(***************************************************************************)
EXTENDS Naturals, Sequences, FiniteSets, TLC

VARIABLES
    dev,        \* __DEV__ : the build flag config.ts reads
    strictIPv4, \* whether the runtime's URL rejects a host that ends in a number
                \* and is no IPv4 address (URL Standard since 2021) or reads it as
                \* a domain name (earlier URL implementations)
    navLog,     \* history: one record per call of shouldStartLoadWithRequest
    opened,     \* history: the URLs handed to RNLinking.openURL, in call order
    webToken,   \* localStorage 'auth_token' of the hosted web content
    channel,    \* messages posted with ReactNativeWebView.postMessage, not yet delivered
    handlers,   \* one record per call of handleWebViewMessage, in delivery order
    secureQ,    \* SecureStore calls issued and not yet settled, in call order
    appQ,       \* AsyncStorage calls issued and not yet settled, in call order
    secureStore,\* SecureStore: key -> value
    appStore,   \* AsyncStorage: key -> value
    authToken,  \* the authToken state of App (the in-memory mirror)
    effects,    \* history: the side effects of the handlers, in the order they occur
    failures,   \* history: the number of store calls that have failed
    pageHost,   \* window.location.hostname of the page the bridge script runs in
    localStorage,\* localStorage of the page: key -> stored string
    location,   \* the URL last assigned to window.location.href by the bridge script
    webLog,     \* history: one record per call of a function the bridge script wraps
    layers,     \* how many times the bridge script has run in the page's context
    hasError,   \* the hasError state of App
    isLoading,  \* the isLoading state of App
    isOffline,  \* useNetworkStatus: !isConnected || isInternetReachable === false
    canGoBack,  \* the canGoBack state of App
    currentUrl, \* the currentUrl state of App, the uri of the WebView's source
    page,       \* the document of the WebView: st is "loading", "scripted" (the
                \* hosted application's first script has run), "failed" or
                \* "loaded"; n counts the documents; injected tells whether
                \* handleLoadEnd's script has run in this document
    pendingInject,\* the tokens of the handleLoadEnd calls that wait for
                \* SplashScreen.hideAsync(), in call order
    init,       \* the position and locals of initializeApp
    uiLog,      \* history: what the back button and the 'Exit App' dialog did
                \* (goBack, alert, cancel, exitApp), in order
    inputs      \* history: the number of events that reached the interface

navVars == <<dev, strictIPv4, navLog>>

msgVars == <<webToken, channel, handlers, secureQ, appQ, secureStore, appStore,
             authToken, effects, failures>>

webVars == <<pageHost, localStorage, location, webLog, layers>>

appVars == <<hasError, isLoading, isOffline, canGoBack, currentUrl, page, pendingInject,
             init, uiLog, inputs>>

vars == <<dev, strictIPv4, navLog, opened, webToken, channel, handlers, secureQ, appQ,
          secureStore, appStore, authToken, effects, failures, webVars, appVars>>

----------------------------------------------------------------------------
(* Bounds *)

\* number of navigation requests in one behaviour
MaxReq == 2

\* number of messages the web content posts in one behaviour
MaxMsgs == 2

\* number of store calls that fail in one behaviour
MaxFail == 1

\* number of calls of wrapped page functions in one behaviour
MaxCalls == 2

\* number of times the bridge script runs in one execution context
MaxRuns == 2

\* number of events (user, surface, network) the shell's interface receives
MaxEvents == 3

\* number of documents the surface starts loading in one behaviour
MaxLoads == 1

\* number of storage calls the hosted application makes while documents load
MaxWrites == 1

----------------------------------------------------------------------------
(* services/storage.ts: the keys *)

\* null, undefined, an absent key
None == "<none>"

AUTH_TOKEN_KEY    == "auth_token"
REFRESH_TOKEN_KEY == "refresh_token"
USER_DATA_KEY     == "user_data"
PUSH_TOKEN_KEY    == "push_token"

SecureKeys == {AUTH_TOKEN_KEY, REFRESH_TOKEN_KEY}
AppKeys    == {USER_DATA_KEY, PUSH_TOKEN_KEY}

----------------------------------------------------------------------------
(* String.prototype helpers used by the source *)

\* s.startsWith(p)
StartsWith(s, p) ==
    /\ Len(s) >= Len(p)
    /\ SubSeq(s, 1, Len(p)) = p

\* s.endsWith(p)
EndsWith(s, p) ==
    /\ Len(s) >= Len(p)
    /\ SubSeq(s, Len(s) - Len(p) + 1, Len(s)) = p

\* the prefix of s before the first token of stop (all of s when there is none)
RECURSIVE TakeUntil(_, _)
TakeUntil(s, stop) ==
    IF s = <<>> \/ Head(s) \in stop THEN <<>>
    ELSE <<Head(s)>> \o TakeUntil(Tail(s), stop)

\* the part of s after its last token t (all of s when there is none)
RECURSIVE AfterLast(_, _)
AfterLast(s, t) ==
    IF \A i \in 1..Len(s) : s[i] # t THEN s
    ELSE AfterLast(Tail(s), t)

\* s split at every token sep: the sequence of the pieces
RECURSIVE Split(_, _)
Split(s, sep) ==
    LET first == TakeUntil(s, {sep})
    IN  IF Len(first) = Len(s) THEN <<first>>
        ELSE <<first>> \o Split(SubSeq(s, Len(first) + 2, Len(s)), sep)

----------------------------------------------------------------------------
(* config.ts *)

\* config.webAppUrl
webAppUrl(d) ==
    IF d THEN <<"http:", "//", "localhost", ":", "3000">>
    ELSE <<"https:", "//", "trustbuild", ".", "uk">>

\* config.apiUrl
apiUrl(d) ==
    IF d THEN <<"http:", "//", "localhost", ":", "3001">>
    ELSE <<"https:", "//", "api", ".", "trustbuild", ".", "uk">>

----------------------------------------------------------------------------
(* new URL(url) of the runtime (WHATWG URL), as far as hostname goes *)

SchemeTokens ==
    {"http:", "https:", "ftp:", "tel:", "mailto:", "sms:",
     "about:", "blob:", "data:", "intent:"}

SpecialSchemes == {"http:", "https:", "ftp:"}

NumericTokens == {"0", "1", "127", "3000", "3001"}

ForbiddenHostTokens == {" "}

IsNumericLabel(l) ==
    /\ l # <<>>
    /\ \A i \in 1..Len(l) : l[i] \in NumericTokens

\* host parsing of a special scheme: no forbidden code point, and, where the
\* runtime applies that rule (strictIPv4), a host whose last label is a number
\* must be an IPv4 address (at most four numeric parts)
ValidHost(host) ==
    LET labels == Split(host, ".")
        n      == Len(labels)
        parts  == IF n > 1 /\ labels[n] = <<>> THEN SubSeq(labels, 1, n - 1) ELSE labels
    IN  /\ \A i \in 1..Len(host) : host[i] \notin ForbiddenHostTokens
        /\ (strictIPv4 /\ IsNumericLabel(parts[Len(parts)])) =>
              /\ Len(parts) <= 4
              /\ \A i \in 1..Len(parts) : IsNumericLabel(parts[i])

ParseFailed == [ok |-> FALSE, hostname |-> <<>>]

\* new URL(url): throws (ok = FALSE) or yields the hostname
NewURL(url) ==
    IF url = <<>> \/ Head(url) \notin SchemeTokens THEN ParseFailed
    ELSE
        LET rest       == Tail(url)
            hasSlashes == rest # <<>> /\ Head(rest) = "//"
            afterSl    == IF hasSlashes THEN Tail(rest) ELSE rest
            authority  == TakeUntil(afterSl, {"/", "?", "#"})
            hostport   == AfterLast(authority, "@")
            host       == TakeUntil(hostport, {":"})
        IN  IF Head(url) \in SpecialSchemes
            THEN IF host = <<>> \/ ~ValidHost(host) THEN ParseFailed
                 ELSE [ok |-> TRUE, hostname |-> host]
            ELSE IF hasSlashes
                 THEN IF \E i \in 1..Len(host) : host[i] \in ForbiddenHostTokens
                      THEN ParseFailed
                      ELSE [ok |-> TRUE, hostname |-> host]
                 ELSE [ok |-> TRUE, hostname |-> <<>>]

----------------------------------------------------------------------------
(* shouldStartLoadWithRequest *)

\* hostname.replace(/^www\./, '')
StripWww(hostname) ==
    IF StartsWith(hostname, <<"www", ".">>)
    THEN SubSeq(hostname, 3, Len(hostname))
    ELSE hostname

\* return true, nothing handed to the OS
LoadInSurface(url) == [ret |-> TRUE, opens |-> <<>>]

\* mutant: the OS handler is called and the load is allowed as well
DelegateThenAllow(url) == [ret |-> TRUE, opens |-> <<url>>]

\* RNLinking.openURL(url); return false
DelegateExternal(url) == [ret |-> FALSE, opens |-> <<url>>]

\* about:, blob:, data:
IsContentScheme(url) ==
    \/ StartsWith(url, <<"about:">>)
    \/ StartsWith(url, <<"blob:">>)
    \/ StartsWith(url, <<"data:">>)

\* mutant: sms: is left out of the device-handler schemes
IsDeviceSchemeWithoutSms(url) ==
    \/ StartsWith(url, <<"tel:">>)
    \/ StartsWith(url, <<"mailto:">>)

\* tel:, mailto:, sms:
IsDeviceScheme(url) ==
    \/ StartsWith(url, <<"tel:">>)
    \/ StartsWith(url, <<"mailto:">>)
    \/ StartsWith(url, <<"sms:">>)

\* mutant: the suffix test without the leading dot
IsAppOrApiDomainBareSuffix(requestDomain, appDomain, apiDomain) ==
    \/ requestDomain = appDomain
    \/ EndsWith(requestDomain, appDomain)
    \/ requestDomain = apiDomain
    \/ EndsWith(requestDomain, apiDomain)

\* mutant: the subdomain tests are left out
IsAppOrApiDomainEqualOnly(requestDomain, appDomain, apiDomain) ==
    \/ requestDomain = appDomain
    \/ requestDomain = apiDomain

\* same domain, a subdomain, or the API domain
IsAppOrApiDomain(requestDomain, appDomain, apiDomain) ==
    \/ requestDomain = appDomain
    \/ EndsWith(requestDomain, <<".">> \o appDomain)
    \/ requestDomain = apiDomain
    \/ EndsWith(requestDomain, <<".">> \o apiDomain)

\* localhost and local development: tested on the unstripped hostname
IsLocalDevelopment(hostname) ==
    \/ hostname = <<"localhost">>
    \/ hostname = <<"127", ".", "0", ".", "0", ".", "1">>

\* mutant: the bare stripe.com is left out
IsStripeDomainWithoutApex(requestDomain) ==
    \/ requestDomain = <<"js", ".", "stripe", ".", "com">>
    \/ requestDomain = <<"checkout", ".", "stripe", ".", "com">>
    \/ EndsWith(requestDomain, <<".", "stripe", ".", "com">>)

\* Stripe payment URLs
IsStripeDomain(requestDomain) ==
    \/ requestDomain = <<"js", ".", "stripe", ".", "com">>
    \/ requestDomain = <<"checkout", ".", "stripe", ".", "com">>
    \/ EndsWith(requestDomain, <<".", "stripe", ".", "com">>)
    \/ requestDomain = <<"stripe", ".", "com">>

\* Google OAuth URLs
IsGoogleAuthDomain(requestDomain) ==
    \/ requestDomain = <<"accounts", ".", "google", ".", "com">>
    \/ EndsWith(requestDomain, <<".", "google", ".", "com">>)

\* mutant: a URL that fails to parse is refused and handed to the OS
FailClosed(url) == [ret |-> FALSE, opens |-> <<url>>]

\* the catch block: a URL that fails to parse is allowed
OnParseFailure(url) == LoadInSurface(url)

\* mutant: only https:// URLs are sent to the system browser
IsHttpsUrlOnly(url) == StartsWith(url, <<"https:", "//">>)

\* the test that sends the remaining URLs to the system browser
IsHttpUrl(url) ==
    \/ StartsWith(url, <<"http:", "//">>)
    \/ StartsWith(url, <<"https:", "//">>)

\* the value returned by shouldStartLoadWithRequest({url}) and its openURL calls
Decide(url, d) ==
    IF IsContentScheme(url) THEN LoadInSurface(url)
    ELSE IF IsDeviceScheme(url) THEN DelegateExternal(url)
    ELSE
        LET requestUrl == NewURL(url)
            appUrl     == NewURL(webAppUrl(d))
            apiUrlP    == NewURL(apiUrl(d))
        IN  IF ~requestUrl.ok \/ ~appUrl.ok \/ ~apiUrlP.ok THEN OnParseFailure(url)
            ELSE
                LET appDomain     == StripWww(appUrl.hostname)
                    apiDomain     == StripWww(apiUrlP.hostname)
                    requestDomain == StripWww(requestUrl.hostname)
                IN  IF IsAppOrApiDomain(requestDomain, appDomain, apiDomain)
                        THEN LoadInSurface(url)
                    ELSE IF IsLocalDevelopment(requestUrl.hostname)
                        THEN LoadInSurface(url)
                    ELSE IF IsStripeDomain(requestDomain)
                        THEN LoadInSurface(url)
                    ELSE IF IsGoogleAuthDomain(requestDomain)
                        THEN LoadInSurface(url)
                    ELSE IF IsHttpUrl(url) THEN DelegateExternal(url)
                    ELSE LoadInSurface(url)

----------------------------------------------------------------------------
(* The navigation requests the WebView reports.  The WebView hands over the *)
(* serialised URL of the navigation: lower-case scheme and host, and "//"   *)
(* after a special scheme.                                                  *)

TrustedBases ==
    { <<"trustbuild", ".", "uk">>,
      <<"api", ".", "trustbuild", ".", "uk">>,
      <<"localhost">>,
      <<"stripe", ".", "com">>,
      <<"google", ".", "com">> }

BaseHosts ==
    TrustedBases \cup
    { <<"127", ".", "0", ".", "0", ".", "1">>,
      <<"checkout", ".", "stripe", ".", "com">>,
      <<"accounts", ".", "google", ".", "com">>,
      <<"twitter", ".", "com">> }

Hosts ==
    BaseHosts
    \cup { <<"www", ".">> \o b : b \in BaseHosts }
    \cup { <<"evil">> \o b : b \in TrustedBases }
    \cup { <<"m", ".">> \o b : b \in { <<"trustbuild", ".", "uk">>,
                                       <<"stripe", ".", "com">>,
                                       <<"twitter", ".", "com">> } }

HttpUrls ==
    { <<"https:", "//">> \o h : h \in Hosts }
    \cup { <<"http:", "//", "trustbuild", ".", "uk", "/", "share">>,
           <<"http:", "//", "twitter", ".", "com", "/", "share">>,
           <<"https:", "//", "trustbuild", ".", "uk", "@", "twitter", ".", "com">>,
           <<"https:", "//", "twitter", ".", "com", ":", "3000", "/", "share">>,
           <<"https:", "//", "www", ".", "www", ".", "trustbuild", ".", "uk">>,
           <<"https:", "//", "www">>,
           <<"https:", "//">>,
           <<"https:", "//", "twitter", " ", "com">> }

OtherUrls ==
    { <<"about:", "blank">>,
      <<"blob:", "https:", "//", "twitter", ".", "com", "/", "share">>,
      <<"data:", "share">>,
      <<"tel:", "127">>,
      <<"tel:">>,
      <<"mailto:", "m", "@", "trustbuild", ".", "uk">>,
      <<"sms:", "//", "trustbuild", ".", "uk">>,
      <<"tel:", "//", "localhost">>,
      <<"mailto:", "//", "checkout", ".", "stripe", ".", "com">>,
      <<"ftp:", "//", "twitter", ".", "com">>,
      <<"ftp:", "//", "trustbuild", ".", "uk">>,
      <<"intent:", "//", "twitter", ".", "com">>,
      <<"/", "share">>,
      <<>> }

RequestUrls == HttpUrls \cup OtherUrls

----------------------------------------------------------------------------
(* Initial state and actions *)

\* the keys the hosted application keeps in localStorage
WebKeys == {AUTH_TOKEN_KEY, "theme"}

\* one entry of the interface history
Ui(ev, val) == [ev |-> ev, val |-> val]

\* the position and locals of initializeApp: storedToken, pushToken, and what
\* sendPushTokenToServer returned ("true", "false", None while not returned)
InitRec(pc, storedToken, pushToken, sent) ==
    [pc |-> pc, storedToken |-> storedToken, pushToken |-> pushToken, sent |-> sent]

\* the n-th document of the surface
Document(st, n) == [st |-> st, n |-> n, injected |-> FALSE]

\* the surface starts loading the next document
NextDocument(doc) == Document("loading", doc.n + 1)

\* the interface once the first document has loaded and initializeApp
\* has returned
AppIdle ==
    /\ hasError = FALSE
    /\ isLoading = FALSE
    /\ isOffline = FALSE
    /\ canGoBack = FALSE
    /\ currentUrl = webAppUrl(dev)
    /\ page = Document("loaded", 1)
    /\ pendingInject = <<>>
    /\ init = InitRec("done", None, None, None)
    /\ uiLog = <<>>
    /\ inputs = 0

\* the page before any wrapped function is called
PageIdle ==
    /\ pageHost = <<"trustbuild", ".", "uk">>
    /\ localStorage = [k \in WebKeys |-> None]
    /\ location = <<>>
    /\ webLog = <<>>
    /\ layers = 1

NavInit ==
    /\ dev \in BOOLEAN
    /\ strictIPv4 \in BOOLEAN
    /\ navLog = <<>>
    /\ opened = <<>>
    /\ webToken = None
    /\ channel = <<>>
    /\ handlers = <<>>
    /\ secureQ = <<>>
    /\ appQ = <<>>
    /\ secureStore = [k \in SecureKeys |-> None]
    /\ appStore = [k \in AppKeys |-> None]
    /\ authToken = None
    /\ effects = <<>>
    /\ failures = 0
    /\ PageIdle
    /\ AppIdle

\* onShouldStartLoadWithRequest={shouldStartLoadWithRequest}: one request
ShouldStartLoadWithRequest(url) ==
    /\ Len(navLog) < MaxReq
    /\ LET r == Decide(url, dev)
       IN  /\ navLog' = Append(navLog, [url |-> url, ret |-> r.ret, opens |-> r.opens])
           /\ opened' = opened \o r.opens
    /\ UNCHANGED <<dev, strictIPv4, msgVars, webVars, appVars>>

NavNext == \E url \in RequestUrls : ShouldStartLoadWithRequest(url)

SpecNav == NavInit /\ [][NavNext]_vars

----------------------------------------------------------------------------
(* The message bridge: injectedJavaScript (web side) and                    *)
(* handleWebViewMessage (shell side).                                       *)
(*                                                                          *)
(* handleWebViewMessage is async.  A call runs to its first await when the  *)
(* message is delivered; each later part runs when the awaited native call  *)
(* settles.  SecureStore and AsyncStorage each serve their calls in call    *)
(* order; calls to different modules and network requests settle in any     *)
(* order.  A store call that fails leaves the store as it was.              *)

\* session tokens the web application writes
Tokens == {"t1", "t2"}

\* the Expo push token registerForPushNotificationsAsync stores
ExpoPushToken == "ExpoPushToken"

\* if (x): x is neither null/undefined nor the empty string
Truthy(x) == x # None /\ x # ""

\* JSON.stringify({ type, payload }) as it arrives in event.nativeEvent.data;
\* src records which part of the page posted it, value what JSON.parse yields
Envelope(type, token, url, text, src) ==
    [json |-> TRUE, value |-> "object", type |-> type, token |-> token, url |-> url,
     text |-> text, src |-> src]

\* a posted string that is not JSON
NotJson ==
    [json |-> FALSE, value |-> None, type |-> None, token |-> None, url |-> None,
     text |-> None, src |-> "postMessage"]

\* a posted string that is JSON and no object: 'null', '42', '"hello"'
JsonPrimitive(value) ==
    [json |-> TRUE, value |-> value, type |-> None, token |-> None, url |-> None,
     text |-> None, src |-> "postMessage"]

\* what the hosted application posts through TrustBuildMobile.sendMessage or
\* ReactNativeWebView.postMessage itself
DirectMessages ==
    { Envelope("NAVIGATE", None, "/dashboard", None, "sendMessage"),
      Envelope("NAVIGATE", None, "/users/o'brien", None, "sendMessage"),
      Envelope("NAVIGATE", None, None, None, "sendMessage"),
      Envelope("OPEN_EXTERNAL", None, None, None, "sendMessage"),
      Envelope("SHARE", None, None, None, "sendMessage"),
      Envelope("OPEN_EXTERNAL", None, "https://twitter.com/share", None, "sendMessage"),
      Envelope("SHARE", None, "/jobs/1", "job", "sendMessage"),
      Envelope("AUTH_TOKEN", None, None, None, "sendMessage"),
      Envelope("PING", None, None, None, "sendMessage"),
      NotJson,
      JsonPrimitive("null"),
      JsonPrimitive("number"),
      JsonPrimitive("string") }

Posted == Len(channel) + Len(handlers)

\* localStorage.setItem('auth_token', value) through the bridge's wrapper
WebSetItem(value) ==
    /\ Posted < MaxMsgs
    /\ channel' = Append(channel, Envelope("AUTH_TOKEN", value, None, None, "setItem"))
    /\ webToken' = value
    /\ UNCHANGED <<appVars, webVars, dev, strictIPv4, navLog, opened, handlers, secureQ, appQ, secureStore,
                   appStore, authToken, effects, failures>>

\* localStorage.removeItem('auth_token') through the bridge's wrapper
WebRemoveItem ==
    /\ Posted < MaxMsgs
    /\ channel' = Append(channel, Envelope("LOGOUT", None, None, None, "removeItem"))
    /\ webToken' = None
    /\ UNCHANGED <<appVars, webVars, dev, strictIPv4, navLog, opened, handlers, secureQ, appQ, secureStore,
                   appStore, authToken, effects, failures>>

\* window.TrustBuildMobile.sendMessage(type, payload)
WebSendMessage(m) ==
    /\ Posted < MaxMsgs
    /\ channel' = Append(channel, m)
    /\ UNCHANGED <<appVars, webVars, dev, strictIPv4, navLog, opened, webToken, handlers, secureQ, appQ,
                   secureStore, appStore, authToken, effects, failures>>

\* a native call in flight: the handler that awaits it, the call, its arguments
StoreCall(h, op, key, val) == [h |-> h, op |-> op, key |-> key, val |-> val]

Effect(h, kind, val) == [h |-> h, kind |-> kind, val |-> val]

\* a handler record: the message, where the call stands, the secure-store
\* deletions Promise.all still waits for, and the local pushToken
Handler(m, pc) == [msg |-> m, pc |-> pc, remaining |-> 0, pushToken |-> None]

\* what a part of handleWebViewMessage does: the handler's next position and
\* the calls it makes
Step(hrec, secureCalls, appCalls, mirror, opens, effs) ==
    [handler |-> hrec, secureCalls |-> secureCalls, appCalls |-> appCalls,
     mirror |-> mirror, opens |-> opens, effects |-> effs]

\* mirror value standing for "setAuthToken is not called"
Keep == "<keep>"

Finished(hrec) == Step([hrec EXCEPT !.pc = "done"], <<>>, <<>>, Keep, <<>>, <<>>)

\* case 'AUTH_TOKEN': up to await secureStorage.setAuthToken(token)
StartAuthToken(m, h) ==
    IF Truthy(m.token)
    THEN Step(Handler(m, "setAuthToken"),
              <<StoreCall(h, "setItem", AUTH_TOKEN_KEY, m.token)>>, <<>>, Keep, <<>>, <<>>)
    ELSE Finished(Handler(m, "done"))

\* case 'LOGOUT': up to await secureStorage.clearAll(), which awaits
\* Promise.all of the two deleteItemAsync calls
StartLogout(m, h) ==
    Step([Handler(m, "secureClearAll") EXCEPT !.remaining = 2],
         <<StoreCall(h, "deleteItem", AUTH_TOKEN_KEY, None),
           StoreCall(h, "deleteItem", REFRESH_TOKEN_KEY, None)>>,
         <<>>, Keep, <<>>, <<>>)

\* case 'SHARE': console.log only
StartShare(m, h) == Finished(Handler(m, "done"))

\* case 'OPEN_EXTERNAL'
StartOpenExternal(m, h) ==
    IF Truthy(m.url)
    THEN Step(Handler(m, "done"), <<>>, <<>>, Keep, <<m.url>>,
              <<Effect(h, "openURL", m.url)>>)
    ELSE Finished(Handler(m, "done"))

\* the characters of a URL of a message, the quote being its own token
UrlText(url) ==
    IF url = "/users/o'brien" THEN <<"/users/o", "'", "brien">> ELSE <<url>>

\* the template literal `window.location.href = '${message.payload.url}'`
LoadScript(url) == <<"window.location.href = ", "'">> \o UrlText(url) \o <<"'">>

\* what the surface does with an injected load script: the string literal runs
\* from the opening quote to the next quote; when that quote ends the script,
\* location.href is assigned the literal, otherwise the script is not the
\* assignment of one string (a SyntaxError, or further code) and <<>> stands
\* for "payload.url is not loaded"
EvaluatedLocation(script) ==
    LET body    == SubSeq(script, 3, Len(script))
        literal == TakeUntil(body, {"'"})
    IN  IF Len(literal) = Len(body) - 1 THEN literal ELSE <<>>

\* case 'NAVIGATE': webViewRef.current.injectJavaScript(window.location.href = url)
StartNavigate(m, h) ==
    IF Truthy(m.url)
    THEN Step(Handler(m, "done"), <<>>, <<>>, Keep, <<>>,
              <<Effect(h, "injectJavaScript", LoadScript(m.url))>>)
    ELSE Finished(Handler(m, "done"))

\* handleWebViewMessage without its try/catch: JSON.parse of a string that is
\* not JSON, and message.type of null, reject the handler's promise
StartHandlerUnguarded(m, h) ==
    IF ~m.json \/ m.value = "null"
    THEN Step(Handler(m, "rejected"), <<>>, <<>>, Keep, <<>>, <<>>)
    ELSE CASE m.type = "AUTH_TOKEN"    -> StartAuthToken(m, h)
           [] m.type = "LOGOUT"        -> StartLogout(m, h)
           [] m.type = "SHARE"         -> StartShare(m, h)
           [] m.type = "OPEN_EXTERNAL" -> StartOpenExternal(m, h)
           [] m.type = "NAVIGATE"      -> StartNavigate(m, h)
           [] OTHER                    -> Finished(Handler(m, "done"))

\* handleWebViewMessage(event) up to its first await; h is the call's index.
\* JSON.parse throws on a string that is not JSON and message.type throws on
\* null: both reach the catch, which logs; the type of a number or a string
\* is undefined and reaches default
StartHandler(m, h) ==
    IF ~m.json \/ m.value = "null" THEN Finished(Handler(m, "done"))
    ELSE CASE m.type = "AUTH_TOKEN"    -> StartAuthToken(m, h)
           [] m.type = "LOGOUT"        -> StartLogout(m, h)
           [] m.type = "SHARE"         -> StartShare(m, h)
           [] m.type = "OPEN_EXTERNAL" -> StartOpenExternal(m, h)
           [] m.type = "NAVIGATE"      -> StartNavigate(m, h)
           [] OTHER                    -> Finished(Handler(m, "done"))

\* the state after a part of a handler has run
Apply(h, st) ==
    /\ handlers' = IF h > Len(handlers) THEN Append(handlers, st.handler)
                   ELSE [handlers EXCEPT ![h] = st.handler]
    /\ authToken' = IF st.mirror = Keep THEN authToken ELSE st.mirror
    /\ opened' = opened \o st.opens

\* onMessage={handleWebViewMessage}: the next posted message is delivered
Deliver ==
    /\ channel # <<>>
    /\ LET h  == Len(handlers) + 1
           st == StartHandler(Head(channel), h)
       IN  /\ Apply(h, st)
           /\ secureQ' = secureQ \o st.secureCalls
           /\ appQ' = appQ \o st.appCalls
           /\ effects' = effects \o st.effects
    /\ channel' = Tail(channel)
    /\ UNCHANGED <<appVars, webVars, dev, strictIPv4, navLog, webToken, secureStore, appStore, failures>>

\* SecureStore after a call that succeeded
SecureStoreAfter(c) ==
    CASE c.op = "setItem"    -> [secureStore EXCEPT ![c.key] = c.val]
      [] c.op = "deleteItem" -> [secureStore EXCEPT ![c.key] = None]
      [] OTHER               -> secureStore

\* AsyncStorage when clearAll removes the user data only
AppStoreAfterKeepsPushToken(c) ==
    CASE c.op = "multiRemove" -> [appStore EXCEPT ![USER_DATA_KEY] = None]
      [] c.op = "setItem"     -> [appStore EXCEPT ![c.key] = c.val]
      [] OTHER                -> appStore

\* AsyncStorage after a call that succeeded
AppStoreAfter(c) ==
    CASE c.op = "multiRemove" ->
            [k \in AppKeys |-> IF k \in {USER_DATA_KEY, PUSH_TOKEN_KEY} THEN None
                               ELSE appStore[k]]
      [] c.op = "setItem"     -> [appStore EXCEPT ![c.key] = c.val]
      [] OTHER                -> appStore

\* handleWebViewMessage without its catch: the error secureStorage.setAuthToken
\* rethrows rejects the handler's promise
AfterSetAuthTokenUncaught(hrec, h, ok) ==
    IF ok
    THEN Step([hrec EXCEPT !.pc = "getPushToken"], <<>>,
              <<StoreCall(h, "getItem", PUSH_TOKEN_KEY, None)>>,
              hrec.msg.token, <<>>,
              <<Effect(h, "setItem", hrec.msg.token),
                Effect(h, "setAuthToken", hrec.msg.token)>>)
    ELSE Step([hrec EXCEPT !.pc = "rejected"], <<>>, <<>>, Keep, <<>>, <<>>)

\* handleWebViewMessage setting the mirror before the write is known to have
\* succeeded
AfterSetAuthTokenMirrorsAnyway(hrec, h, ok) ==
    IF ok
    THEN Step([hrec EXCEPT !.pc = "getPushToken"], <<>>,
              <<StoreCall(h, "getItem", PUSH_TOKEN_KEY, None)>>,
              hrec.msg.token, <<>>,
              <<Effect(h, "setItem", hrec.msg.token),
                Effect(h, "setAuthToken", hrec.msg.token)>>)
    ELSE Step([hrec EXCEPT !.pc = "done"], <<>>, <<>>, hrec.msg.token, <<>>, <<>>)

\* AUTH_TOKEN after await secureStorage.setAuthToken: setAuthToken(token), then
\* await appStorage.getPushToken(); a rejection goes to the handler's catch
AfterSetAuthToken(hrec, h, ok) ==
    IF ok
    THEN Step([hrec EXCEPT !.pc = "getPushToken"], <<>>,
              <<StoreCall(h, "getItem", PUSH_TOKEN_KEY, None)>>,
              hrec.msg.token, <<>>,
              <<Effect(h, "setItem", hrec.msg.token),
                Effect(h, "setAuthToken", hrec.msg.token)>>)
    ELSE Finished(hrec)

\* sendPushTokenToServer after await secureStorage.getAuthToken(): no token, no
\* request; otherwise the fetch is sent
AfterGetAuthToken(hrec, h, value) ==
    IF Truthy(value)
    THEN Step([hrec EXCEPT !.pc = "fetch"], <<>>, <<>>, Keep, <<>>,
              <<Effect(h, "fetch", <<value, hrec.pushToken>>)>>)
    ELSE Finished(hrec)

\* AUTH_TOKEN after await appStorage.getPushToken(): with a push token,
\* sendPushTokenToServer starts with await secureStorage.getAuthToken()
AfterGetPushToken(hrec, h, value) ==
    IF Truthy(value)
    THEN Step([hrec EXCEPT !.pc = "getAuthToken", !.pushToken = value],
              <<StoreCall(h, "getItem", AUTH_TOKEN_KEY, None)>>, <<>>, Keep, <<>>, <<>>)
    ELSE Finished(hrec)

\* secureStorage.clearAll without its catch: a failed deletion reaches the
\* catch of handleWebViewMessage
AfterSecureDeleteRethrows(hrec, h, ok) ==
    IF ~ok THEN Finished(hrec)
    ELSE IF hrec.remaining > 1
    THEN Step([hrec EXCEPT !.remaining = @ - 1], <<>>, <<>>, Keep, <<>>,
              <<Effect(h, "deleteItem", None)>>)
    ELSE Step([hrec EXCEPT !.pc = "appClearAll", !.remaining = 0], <<>>,
              <<StoreCall(h, "multiRemove", None, None)>>, Keep, <<>>,
              <<Effect(h, "deleteItem", None)>>)

\* LOGOUT after one deleteItemAsync of secureStorage.clearAll settles:
\* Promise.all resolves with the last success and rejects with the first
\* failure; clearAll catches, and the handler awaits appStorage.clearAll()
AfterSecureDelete(hrec, h, ok) ==
    IF ok /\ hrec.remaining > 1
    THEN Step([hrec EXCEPT !.remaining = @ - 1], <<>>, <<>>, Keep, <<>>,
              <<Effect(h, "deleteItem", None)>>)
    ELSE Step([hrec EXCEPT !.pc = "appClearAll", !.remaining = 0], <<>>,
              <<StoreCall(h, "multiRemove", None, None)>>, Keep, <<>>,
              IF ok THEN <<Effect(h, "deleteItem", None)>> ELSE <<>>)

\* LOGOUT after await appStorage.clearAll(): setAuthToken(null)
AfterAppClearAll(hrec, h, ok) ==
    Step([hrec EXCEPT !.pc = "done"], <<>>, <<>>, None, <<>>,
         (IF ok THEN <<Effect(h, "multiRemove", None)>> ELSE <<>>)
            \o <<Effect(h, "setAuthToken", None)>>)

\* a settled call nobody awaits any more (the other deletion of a rejected
\* Promise.all): only its effect on the store remains
Unawaited(hrec, h, c, ok) ==
    Step(hrec, <<>>, <<>>, Keep, <<>>,
         IF ok /\ c.op = "deleteItem" THEN <<Effect(h, "deleteItem", None)>> ELSE <<>>)

\* the part of handler h that runs when SecureStore call c settles
ResumeSecure(hrec, h, c, ok) ==
    CASE hrec.pc = "setAuthToken" /\ c.op = "setItem"      -> AfterSetAuthToken(hrec, h, ok)
      [] hrec.pc = "secureClearAll" /\ c.op = "deleteItem" -> AfterSecureDelete(hrec, h, ok)
      [] hrec.pc = "getAuthToken" /\ c.op = "getItem"      ->
            AfterGetAuthToken(hrec, h, IF ok THEN secureStore[c.key] ELSE None)
      [] OTHER                                             -> Unawaited(hrec, h, c, ok)

\* the part of handler h that runs when AsyncStorage call c settles
ResumeApp(hrec, h, c, ok) ==
    CASE hrec.pc = "getPushToken" /\ c.op = "getItem"    ->
            AfterGetPushToken(hrec, h, IF ok THEN appStore[c.key] ELSE None)
      [] hrec.pc = "appClearAll" /\ c.op = "multiRemove" -> AfterAppClearAll(hrec, h, ok)
      [] OTHER                                           -> Unawaited(hrec, h, c, ok)

\* the oldest SecureStore call settles: resolved (ok) or rejected
SettleSecure(ok) ==
    /\ secureQ # <<>>
    /\ ok \/ failures < MaxFail
    /\ LET c  == Head(secureQ)
           st == ResumeSecure(handlers[c.h], c.h, c, ok)
       IN  /\ Apply(c.h, st)
           /\ secureStore' = IF ok THEN SecureStoreAfter(c) ELSE secureStore
           /\ secureQ' = Tail(secureQ) \o st.secureCalls
           /\ appQ' = appQ \o st.appCalls
           /\ effects' = effects \o st.effects
    /\ failures' = IF ok THEN failures ELSE failures + 1
    /\ UNCHANGED <<appVars, webVars, dev, strictIPv4, navLog, webToken, channel, appStore>>

\* the oldest AsyncStorage call settles: resolved (ok) or rejected
SettleApp(ok) ==
    /\ appQ # <<>>
    /\ ok \/ failures < MaxFail
    /\ LET c  == Head(appQ)
           st == ResumeApp(handlers[c.h], c.h, c, ok)
       IN  /\ Apply(c.h, st)
           /\ appStore' = IF ok THEN AppStoreAfter(c) ELSE appStore
           /\ appQ' = Tail(appQ) \o st.appCalls
           /\ secureQ' = secureQ \o st.secureCalls
           /\ effects' = effects \o st.effects
    /\ failures' = IF ok THEN failures ELSE failures + 1
    /\ UNCHANGED <<appVars, webVars, dev, strictIPv4, navLog, webToken, channel, secureStore>>

\* the fetch of sendPushTokenToServer settles (response.ok, !response.ok or a
\* network error: the handler ignores the result)
SettleFetch(h) ==
    /\ handlers[h].pc = "fetch"
    /\ handlers' = [handlers EXCEPT ![h].pc = "done"]
    /\ UNCHANGED <<appVars, webVars, dev, strictIPv4, navLog, opened, webToken, channel, secureQ, appQ,
                   secureStore, appStore, authToken, effects, failures>>

\* secureStorage.getAuthToken() called now, the read succeeding
getAuthToken == secureStore[AUTH_TOKEN_KEY]

\* the shell after initializeApp: the mirror holds the stored token, and
\* the push token is stored when registration succeeded; the web content's
\* storage holds the same session
MsgInit ==
    /\ dev = FALSE
    /\ strictIPv4 = TRUE
    /\ navLog = <<>>
    /\ opened = <<>>
    /\ \E t \in {None, "t1"} :
          /\ secureStore = [k \in SecureKeys |-> IF k = AUTH_TOKEN_KEY THEN t ELSE None]
          /\ authToken = t
          /\ webToken = t
    /\ \E p \in {None, ExpoPushToken} :
          appStore = [k \in AppKeys |-> IF k = PUSH_TOKEN_KEY THEN p ELSE None]
    /\ channel = <<>>
    /\ handlers = <<>>
    /\ secureQ = <<>>
    /\ appQ = <<>>
    /\ effects = <<>>
    /\ failures = 0
    /\ PageIdle
    /\ AppIdle

MsgNext ==
    \/ \E t \in Tokens : WebSetItem(t)
    \/ WebRemoveItem
    \/ \E m \in DirectMessages : WebSendMessage(m)
    \/ Deliver
    \/ \E ok \in BOOLEAN : SettleSecure(ok)
    \/ \E ok \in BOOLEAN : SettleApp(ok)
    \/ \E h \in DOMAIN handlers : SettleFetch(h)

SpecMsg == MsgInit /\ [][MsgNext]_vars

\* a delivered message is handled, and a native call or a network request that
\* was started settles (resolved or rejected)
SpecMsgFair ==
    /\ SpecMsg
    /\ WF_vars(Deliver)
    /\ WF_vars(\E ok \in BOOLEAN : SettleSecure(ok))
    /\ WF_vars(\E ok \in BOOLEAN : SettleApp(ok))
    /\ WF_vars(\E h \in DOMAIN handlers : SettleFetch(h))

----------------------------------------------------------------------------
(* injectedJavaScript: the functions the bridge script wraps inside the page *)

\* values the page passes to localStorage.setItem: token strings, undefined,
\* and a value JSON.stringify throws on (a BigInt, a cyclic object)
Undefined == "<undefined>"
Unserialisable == "<bigint>"
WebValues == Tokens \cup {Undefined, Unserialisable}

\* String(value), which Storage.setItem stores
StoredText(value) ==
    CASE value = Undefined      -> "undefined"
      [] value = Unserialisable -> "10"
      [] OTHER                  -> value

\* JSON.stringify({ type, payload: { token: value } }) throws
StringifyThrows(value) == value = Unserialisable

\* payload.token after JSON.stringify and JSON.parse: an undefined member is
\* left out
JsonToken(value) == IF value = Undefined THEN None ELSE value

\* the shell's variables, which a call inside the page does not touch
shellVars == <<dev, strictIPv4, navLog, opened, webToken, handlers, secureQ, appQ,
               secureStore, appStore, authToken, effects, failures, appVars>>

\* one call of a wrapped function: its arguments (key is the storage key, or
\* the target of the clicked link), what it posted, whether it reached the
\* original function, whether it threw, what it assigned to location.href,
\* whether it returned null
WebCall(fn, key, value, posted, original, threw, href, null) ==
    [fn |-> fn, key |-> key, value |-> value, posted |-> posted,
     original |-> original, threw |-> threw, href |-> href, null |-> null]

\* n copies of envelope e: what n wrappers around one another post
RECURSIVE Repeat(_, _)
Repeat(e, n) == IF n = 0 THEN <<>> ELSE <<e>> \o Repeat(e, n - 1)

\* localStorage.setItem = function(key, value): sendMessage for 'auth_token',
\* then originalSetItem, which is the wrapper of the run before when the
\* script has run more than once; an exception of sendMessage leaves the wrapper
SetItem(key, value) ==
    /\ Len(webLog) < MaxCalls
    /\ LET forwards == key = AUTH_TOKEN_KEY
           throws   == forwards /\ StringifyThrows(value)
           posted   == IF forwards /\ ~throws
                       THEN Repeat(Envelope("AUTH_TOKEN", JsonToken(value), None, None,
                                            "setItem"), layers)
                       ELSE <<>>
       IN  /\ channel' = channel \o posted
           /\ localStorage' = IF throws THEN localStorage
                              ELSE [localStorage EXCEPT ![key] = StoredText(value)]
           /\ webLog' = Append(webLog, WebCall("setItem", key, value, posted,
                                               ~throws, throws, <<>>, FALSE))
    /\ UNCHANGED <<shellVars, pageHost, location, layers>>

\* the removeItem wrapper without its test of the key
RemoveItemForwardsAll(key) ==
    /\ Len(webLog) < MaxCalls
    /\ LET posted == <<Envelope("LOGOUT", None, None, None, "removeItem")>>
       IN  /\ channel' = channel \o posted
           /\ localStorage' = [localStorage EXCEPT ![key] = None]
           /\ webLog' = Append(webLog, WebCall("removeItem", key, None, posted,
                                               TRUE, FALSE, <<>>, FALSE))
    /\ UNCHANGED <<shellVars, pageHost, location, layers>>

\* localStorage.removeItem = function(key): sendMessage('LOGOUT', {}) for
\* 'auth_token', then originalRemoveItem (the wrapper of the run before when
\* the script has run more than once)
RemoveItem(key) ==
    /\ Len(webLog) < MaxCalls
    /\ LET posted == IF key = AUTH_TOKEN_KEY
                     THEN Repeat(Envelope("LOGOUT", None, None, None, "removeItem"), layers)
                     ELSE <<>>
       IN  /\ channel' = channel \o posted
           /\ localStorage' = [localStorage EXCEPT ![key] = None]
           /\ webLog' = Append(webLog, WebCall("removeItem", key, None, posted,
                                               TRUE, FALSE, <<>>, FALSE))
    /\ UNCHANGED <<shellVars, pageHost, location, layers>>

\* window.location.origin of a page served over https
PageOrigin(host) == <<"https:", "//">> \o host

\* new URL(url, base): a url with a scheme is parsed on its own, a url that
\* starts with // takes the scheme of the base, any other url is a path on
\* the host of the base
NewURLWithBase(url, base) ==
    IF url # <<>> /\ Head(url) \in SchemeTokens THEN NewURL(url)
    ELSE IF url # <<>> /\ Head(url) = "//" THEN NewURL(<<Head(base)>> \o url)
    ELSE NewURL(base)

\* the test of window.open without its test for names below the page's host
IsInternalForOpenEqualOnly(targetHost, currentHost) ==
    \/ targetHost = currentHost
    \/ EndsWith(targetHost, <<".", "stripe", ".", "com">>)
    \/ targetHost = <<"stripe", ".", "com">>

\* the test of window.open: the page's own host, a name below it, stripe.com
\* or a name below it
IsInternalForOpen(targetHost, currentHost) ==
    \/ targetHost = currentHost
    \/ EndsWith(targetHost, <<".">> \o currentHost)
    \/ EndsWith(targetHost, <<".", "stripe", ".", "com">>)
    \/ targetHost = <<"stripe", ".", "com">>

\* the test of the click listener: the page's own host or a name below it
IsInternalForClick(targetHost, currentHost) ==
    \/ targetHost = currentHost
    \/ EndsWith(targetHost, <<".">> \o currentHost)

\* the try block of window.open: TRUE when the url parses and the test holds
\* of the two hosts without a leading www.
OpenIsInternal(url) ==
    LET urlObj == NewURLWithBase(url, PageOrigin(pageHost))
    IN  /\ urlObj.ok
        /\ IsInternalForOpen(StripWww(urlObj.hostname), StripWww(pageHost))

\* the try block of the click listener
ClickIsInternal(href) ==
    LET urlObj == NewURLWithBase(href, PageOrigin(pageHost))
    IN  /\ urlObj.ok
        /\ IsInternalForClick(StripWww(urlObj.hostname), StripWww(pageHost))

\* window.open without its try/catch: a url that does not parse throws out
\* of the override
WindowOpenUncaught(url) ==
    /\ Len(webLog) < MaxCalls
    /\ LET parses   == NewURLWithBase(url, PageOrigin(pageHost)).ok
           internal == OpenIsInternal(url)
           posted   == IF url # <<>> /\ parses /\ ~internal
                       THEN <<Envelope("OPEN_EXTERNAL", None, url, None, "openExternal")>>
                       ELSE <<>>
       IN  /\ channel' = channel \o posted
           /\ location' = IF url # <<>> /\ internal THEN url ELSE location
           /\ webLog' = Append(webLog,
                  WebCall("open", None, url, posted, url = <<>>, url # <<>> /\ ~parses,
                          IF url # <<>> /\ internal THEN url ELSE <<>>,
                          url # <<>> /\ parses))
    /\ UNCHANGED <<shellVars, pageHost, localStorage, layers>>

\* window.open = function(url, target, features): an internal url is assigned
\* to location.href, any other url goes to openExternal, both return null; no
\* url goes to originalOpen
WindowOpen(url) ==
    /\ Len(webLog) < MaxCalls
    /\ LET internal == OpenIsInternal(url)
           posted   == IF url # <<>> /\ ~internal
                       THEN <<Envelope("OPEN_EXTERNAL", None, url, None, "openExternal")>>
                       ELSE <<>>
       IN  /\ channel' = channel \o posted
           /\ location' = IF url # <<>> /\ internal THEN url ELSE location
           /\ webLog' = Append(webLog,
                  WebCall("open", None, url, posted, url = <<>>, FALSE,
                          IF url # <<>> /\ internal THEN url ELSE <<>>,
                          url # <<>>))
    /\ UNCHANGED <<shellVars, pageHost, localStorage, layers>>

\* the click listener on a link: target _blank (blank) and an internal href
\* are needed for preventDefault and the assignment to location.href;
\* otherwise the click keeps its default action (original)
Click(href, blank) ==
    /\ Len(webLog) < MaxCalls
    /\ LET internal == blank /\ href # <<>> /\ ClickIsInternal(href)
       IN  /\ location' = IF internal THEN href ELSE location
           /\ webLog' = Append(webLog,
                  WebCall("click", IF blank THEN "_blank" ELSE "_self", href, <<>>,
                          ~internal, FALSE,
                          IF internal THEN href ELSE <<>>, FALSE))
    /\ UNCHANGED <<shellVars, pageHost, localStorage, channel, layers>>

\* the hosts of the pages the surface shows
PageHosts ==
    { <<"trustbuild", ".", "uk">>,
      <<"www", ".", "trustbuild", ".", "uk">>,
      <<"checkout", ".", "stripe", ".", "com">> }

\* link.href of the links of a page: absolute URLs
Hrefs ==
    { <<"https:", "//", "trustbuild", ".", "uk">>,
      <<"https:", "//", "www", ".", "trustbuild", ".", "uk", "/", "jobs">>,
      <<"https:", "//", "api", ".", "trustbuild", ".", "uk">>,
      <<"https:", "//", "evil", "trustbuild", ".", "uk">>,
      <<"https:", "//", "checkout", ".", "stripe", ".", "com">>,
      <<"https:", "//", "stripe", ".", "com">>,
      <<"https:", "//", "twitter", ".", "com", "/", "share">>,
      <<"https:", "//", "twitter", " ", "com">>,
      <<"mailto:", "m", "@", "trustbuild", ".", "uk">> }

\* the first argument of window.open: an absolute URL, a path, a URL without
\* scheme, or nothing
OpenUrls == Hrefs \cup { <<"/", "jobs">>, <<"//", "twitter", ".", "com">>, <<>> }

\* the clicks on links: target _blank with an href, without one, and another target
Clicks ==
    { <<href, TRUE>> : href \in Hrefs }
        \cup { << <<>>, TRUE >>, << <<"https:", "//", "trustbuild", ".", "uk">>, FALSE >> }

\* a page of the surface after the bridge script has run
WebInit ==
    /\ dev = FALSE
    /\ strictIPv4 = TRUE
    /\ navLog = <<>>
    /\ opened = <<>>
    /\ webToken = None
    /\ channel = <<>>
    /\ handlers = <<>>
    /\ secureQ = <<>>
    /\ appQ = <<>>
    /\ secureStore = [k \in SecureKeys |-> None]
    /\ appStore = [k \in AppKeys |-> None]
    /\ authToken = None
    /\ effects = <<>>
    /\ failures = 0
    /\ pageHost \in PageHosts
    /\ localStorage = [k \in WebKeys |-> None]
    /\ location = <<>>
    /\ webLog = <<>>
    /\ layers = 1
    /\ AppIdle

WebNext ==
    \/ \E key \in WebKeys, value \in WebValues : SetItem(key, value)
    \/ \E key \in WebKeys : RemoveItem(key)
    \/ \E url \in OpenUrls : WindowOpen(url)
    \/ \E c \in Clicks : Click(c[1], c[2])

SpecWeb == WebInit /\ [][WebNext]_vars

\* the WebView evaluates injectedJavaScript again in the same document: every
\* wrapper is rebuilt around the function found in place, which is the
\* wrapper of the run before
RunBridgeScript ==
    /\ layers < MaxRuns
    /\ layers' = layers + 1
    /\ UNCHANGED <<shellVars, channel, pageHost, localStorage, location, webLog>>

RerunNext ==
    \/ RunBridgeScript
    \/ \E key \in WebKeys, value \in WebValues : SetItem(key, value)
    \/ \E key \in WebKeys : RemoveItem(key)
    \/ \E url \in OpenUrls : WindowOpen(url)
    \/ \E c \in Clicks : Click(c[1], c[2])

SpecRerun == WebInit /\ [][RerunNext]_vars

----------------------------------------------------------------------------
(* The bridge and the navigation policy together: an assignment to          *)
(* location.href by window.open or by the click listener starts a           *)
(* navigation of the surface, which the WebView submits to                  *)
(* shouldStartLoadWithRequest before it loads anything.                     *)

\* request.url of the navigation an assignment to location.href starts: the
\* absolute URL, a url without scheme or host resolved against the page
ResolveHref(url, base) ==
    IF url # <<>> /\ Head(url) \in SchemeTokens THEN url
    ELSE IF url # <<>> /\ Head(url) = "//" THEN <<Head(base)>> \o url
    ELSE base \o url

\* the hosts of the pages considered: the application, the API, the payment
\* and sign-in pages, a local server
InPlacePageHosts ==
    PageHosts \cup
    { <<"api", ".", "trustbuild", ".", "uk">>,
      <<"accounts", ".", "google", ".", "com">>,
      <<"localhost">> }

\* the targets of window.open and of links: those of the page-side model, a
\* sign-in page, a name below localhost, and device-handler URLs written
\* with // after the scheme
InPlaceUrls ==
    OpenUrls \cup
    { <<"https:", "//", "accounts", ".", "google", ".", "com">>,
      <<"https:", "//", "www", ".", "localhost">>,
      <<"mailto:", "//", "m", "@", "trustbuild", ".", "uk">>,
      <<"sms:", "//", "trustbuild", ".", "uk">> }

\* link.href is absolute
InPlaceHrefs == { u \in InPlaceUrls : u # <<>> /\ Head(u) \in SchemeTokens }

\* the page shown is one shouldStartLoadWithRequest returned true for
PageIsLoadedByPolicy ==
    /\ NewURL(PageOrigin(pageHost)).ok
    /\ Decide(PageOrigin(pageHost), dev).ret

InPlaceInit ==
    /\ dev \in BOOLEAN
    /\ strictIPv4 = TRUE
    /\ navLog = <<>>
    /\ opened = <<>>
    /\ webToken = None
    /\ channel = <<>>
    /\ handlers = <<>>
    /\ secureQ = <<>>
    /\ appQ = <<>>
    /\ secureStore = [k \in SecureKeys |-> None]
    /\ appStore = [k \in AppKeys |-> None]
    /\ authToken = None
    /\ effects = <<>>
    /\ failures = 0
    /\ pageHost \in InPlacePageHosts
    /\ PageIsLoadedByPolicy
    /\ localStorage = [k \in WebKeys |-> None]
    /\ location = <<>>
    /\ webLog = <<>>
    /\ layers = 1
    /\ AppIdle

\* the calls that assigned a url to location.href
InPlaceCalls == { i \in DOMAIN webLog : webLog[i].href # <<>> }

\* an assignment to location.href whose navigation has not been submitted yet
NavigationPending == Len(navLog) < Cardinality(InPlaceCalls)

\* the WebView submits the navigation started by location.href = url to
\* shouldStartLoadWithRequest; on true the surface loads the URL, which is
\* the page from then on
InPlaceNavigation ==
    /\ NavigationPending
    /\ Len(navLog) < MaxReq
    /\ LET url    == ResolveHref(location, PageOrigin(pageHost))
           r      == Decide(url, dev)
           urlObj == NewURL(url)
       IN  /\ navLog' = Append(navLog, [url |-> url, ret |-> r.ret, opens |-> r.opens])
           /\ opened' = opened \o r.opens
           /\ pageHost' = IF r.ret /\ urlObj.ok /\ urlObj.hostname # <<>>
                          THEN urlObj.hostname
                          ELSE pageHost
    /\ UNCHANGED <<dev, strictIPv4, msgVars, localStorage, location, webLog, layers,
                   appVars>>

\* the page calls window.open or a link is clicked; the navigation a call
\* starts is submitted before the next call
InPlaceNext ==
    \/ ~NavigationPending /\ \E url \in InPlaceUrls : WindowOpen(url)
    \/ ~NavigationPending /\ \E href \in InPlaceHrefs : Click(href, TRUE)
    \/ InPlaceNavigation

SpecInPlace == InPlaceInit /\ [][InPlaceNext]_vars

----------------------------------------------------------------------------
(* App.tsx: the interface of the shell -- loading, error and retry, the     *)
(* hardware back button, the navigation state, initializeApp               *)

\* the render returns the ErrorScreen instead of the WebView when
\* hasError && !isOffline: webViewRef.current is the WebView only otherwise
Mounted == ~(hasError /\ ~isOffline)

\* BackHandler.exitApp() has been called
Exited == \E i \in DOMAIN uiLog : uiLog[i].ev = "exitApp"

\* the process runs and the bound on events is not reached
Running == inputs < MaxEvents /\ ~Exited

\* the 'Exit App' dialogs shown and not yet answered
OpenAlerts ==
    Cardinality({ i \in DOMAIN uiLog : uiLog[i].ev = "alert" })
        - Cardinality({ i \in DOMAIN uiLog : uiLog[i].ev = "cancel" })

\* the variables no event of the interface touches
navFrame == <<dev, strictIPv4, navLog, opened, webVars>>

\* the variables of the message bridge
storeFrame == <<handlers, secureQ, appQ, secureStore, appStore, effects, failures>>

\* the urls the surface reports in a navigation state
NavUrls(d) == { webAppUrl(d), webAppUrl(d) \o <<"/", "jobs">> }

\* onNavigationStateChange={handleNavigationStateChange}
HandleNavigationStateChange(url, back) ==
    /\ Running /\ Mounted
    /\ canGoBack' = back
    /\ currentUrl' = url
    /\ inputs' = inputs + 1
    /\ UNCHANGED <<navFrame, storeFrame, webToken, channel, authToken, hasError, isLoading,
                   isOffline, page, pendingInject, init, uiLog>>

\* the hardware back button exits without asking when the surface cannot go back
HardwareBackPressExits ==
    /\ Running
    /\ uiLog' = Append(uiLog, Ui(IF canGoBack /\ Mounted THEN "goBack" ELSE "exitApp", None))
    /\ inputs' = inputs + 1
    /\ UNCHANGED <<navFrame, storeFrame, webToken, channel, authToken, hasError, isLoading,
                   isOffline, canGoBack, currentUrl, page, pendingInject, init>>

\* BackHandler 'hardwareBackPress' (Android): goBack() when canGoBack and the
\* WebView is there, otherwise the 'Exit App' dialog
HardwareBackPress ==
    /\ Running
    /\ uiLog' = Append(uiLog, Ui(IF canGoBack /\ Mounted THEN "goBack" ELSE "alert", None))
    /\ inputs' = inputs + 1
    /\ UNCHANGED <<navFrame, storeFrame, webToken, channel, authToken, hasError, isLoading,
                   isOffline, canGoBack, currentUrl, page, pendingInject, init>>

\* the 'Exit' button of the dialog: BackHandler.exitApp()
PressExit ==
    /\ ~Exited /\ OpenAlerts > 0
    /\ uiLog' = Append(uiLog, Ui("exitApp", None))
    /\ UNCHANGED <<navFrame, storeFrame, webToken, channel, authToken, hasError, isLoading,
                   isOffline, canGoBack, currentUrl, page, pendingInject, init, inputs>>

\* the 'Cancel' button of the dialog
PressCancel ==
    /\ ~Exited /\ OpenAlerts > 0
    /\ uiLog' = Append(uiLog, Ui("cancel", None))
    /\ UNCHANGED <<navFrame, storeFrame, webToken, channel, authToken, hasError, isLoading,
                   isOffline, canGoBack, currentUrl, page, pendingInject, init, inputs>>

\* the surface starts loading a document (a navigation, pull to refresh)
StartLoad ==
    /\ Running /\ Mounted /\ page.n <= MaxLoads
    /\ page.st \in {"loaded", "scripted"}
    /\ page' = NextDocument(page)
    /\ inputs' = inputs + 1
    /\ UNCHANGED <<navFrame, storeFrame, webToken, channel, authToken, hasError, isLoading,
                   isOffline, canGoBack, currentUrl, pendingInject, init, uiLog>>

\* the document's scripts run while it loads: the hosted application's first
\* script reads localStorage
FirstScript ==
    /\ ~Exited /\ Mounted
    /\ page.st = "loading"
    /\ page' = [page EXCEPT !.st = "scripted"]
    /\ UNCHANGED <<navFrame, storeFrame, webToken, channel, authToken, hasError, isLoading,
                   isOffline, canGoBack, currentUrl, pendingInject, init, uiLog, inputs>>

\* handleError that also forgets the navigation state
HandleErrorResetsNavigation ==
    /\ Running /\ Mounted
    /\ page.st = "loading"
    /\ hasError' = TRUE
    /\ canGoBack' = FALSE
    /\ page' = [page EXCEPT !.st = "failed"]
    /\ inputs' = inputs + 1
    /\ UNCHANGED <<navFrame, storeFrame, webToken, channel, authToken, isLoading,
                   isOffline, currentUrl, pendingInject, init, uiLog>>

\* handleError: setHasError(true), setErrorMessage(...)
HandleError ==
    /\ Running /\ Mounted
    /\ page.st = "loading"
    /\ hasError' = TRUE
    /\ page' = [page EXCEPT !.st = "failed"]
    /\ inputs' = inputs + 1
    /\ UNCHANGED <<navFrame, storeFrame, webToken, channel, authToken, isLoading,
                   isOffline, canGoBack, currentUrl, pendingInject, init, uiLog>>

\* the status codes of the responses the surface reports to onHttpError
StatusCodes == {404, 500}

\* onHttpError: handleError(error) when statusCode >= 400
HandleHttpError(statusCode) ==
    /\ Running /\ Mounted
    /\ page.st = "loading"
    /\ hasError' = (IF statusCode >= 400 THEN TRUE ELSE hasError)
    /\ page' = [page EXCEPT !.st = "failed"]
    /\ inputs' = inputs + 1
    /\ UNCHANGED <<navFrame, storeFrame, webToken, channel, authToken, isLoading,
                   isOffline, canGoBack, currentUrl, pendingInject, init, uiLog>>

\* onLoadEnd={handleLoadEnd}, fired when a load has succeeded or failed, up to
\* await SplashScreen.hideAsync(): setIsLoading(false), setHasError(false);
\* the callback holds the authToken of the render it was made in
HandleLoadEnd ==
    /\ ~Exited /\ Mounted
    /\ page.st \in {"scripted", "failed"}
    /\ isLoading' = FALSE
    /\ hasError' = FALSE
    /\ page' = [page EXCEPT !.st = "loaded"]
    /\ pendingInject' = IF Truthy(authToken) THEN Append(pendingInject, authToken)
                        ELSE pendingInject
    /\ UNCHANGED <<navFrame, storeFrame, webToken, channel, authToken, isOffline, canGoBack,
                   currentUrl, init, uiLog, inputs>>

\* handleLoadEnd injecting again whenever the page holds the token
InjectAuthTokenAgain ==
    /\ pendingInject # <<>>
    /\ LET t == Head(pendingInject)
       IN  /\ channel' = channel \o
                  Repeat(Envelope("AUTH_TOKEN", t, None, None, "inject"), layers)
           /\ webToken' = t
           /\ page' = [page EXCEPT !.injected = TRUE]
    /\ pendingInject' = IF Len(channel) + Len(handlers) < MaxMsgs + MaxLoads
                        THEN pendingInject ELSE Tail(pendingInject)
    /\ UNCHANGED <<navFrame, storeFrame, authToken, hasError, isLoading, isOffline, canGoBack,
                   currentUrl, init, uiLog, inputs>>

\* handleLoadEnd after await SplashScreen.hideAsync(): with the WebView there,
\* the page runs localStorage.setItem('auth_token', authToken), which is the
\* bridge's wrapper
InjectAuthToken ==
    /\ pendingInject # <<>>
    /\ LET t == Head(pendingInject)
       IN  IF Mounted /\ ~Exited
           THEN /\ channel' = channel \o
                       Repeat(Envelope("AUTH_TOKEN", t, None, None, "inject"), layers)
                /\ webToken' = t
                /\ page' = [page EXCEPT !.injected = TRUE]
           ELSE UNCHANGED <<channel, webToken, page>>
    /\ pendingInject' = Tail(pendingInject)
    /\ UNCHANGED <<navFrame, storeFrame, authToken, hasError, isLoading, isOffline, canGoBack,
                   currentUrl, init, uiLog, inputs>>

\* handleRetry, the onRetry of ErrorScreen and of OfflineNotice:
\* setHasError(false), setIsLoading(true), webViewRef.current?.reload(); a
\* WebView that was not there is mounted again and loads currentUrl
HandleRetry ==
    /\ Running
    /\ hasError \/ isOffline
    /\ hasError' = FALSE
    /\ isLoading' = TRUE
    /\ page' = NextDocument(page)
    /\ inputs' = inputs + 1
    /\ UNCHANGED <<navFrame, storeFrame, webToken, channel, authToken, isOffline, canGoBack,
                   currentUrl, pendingInject, init, uiLog>>

\* useNetworkStatus reports a change; the render mounts the WebView again
\* when an error is showing and the device goes offline
NetworkChange ==
    /\ Running
    /\ isOffline' = ~isOffline
    /\ page' = IF hasError /\ ~isOffline THEN NextDocument(page) ELSE page
    /\ inputs' = inputs + 1
    /\ UNCHANGED <<navFrame, storeFrame, webToken, channel, authToken, hasError, isLoading,
                   canGoBack, currentUrl, pendingInject, init, uiLog>>

\* the deep links the system hands to the app
DeepLinks == { <<"trustbuild://", "jobs">> }

\* the data.url of the notifications the server sends; <<>> is no url
NotificationUrls == { <<"/", "jobs">>, <<>> }

\* url.replace(`${config.scheme}://`, ''): the first occurrence is removed
RECURSIVE ReplaceScheme(_)
ReplaceScheme(url) ==
    IF url = <<>> THEN <<>>
    ELSE IF Head(url) = "trustbuild://" THEN Tail(url)
    ELSE <<Head(url)>> \o ReplaceScheme(Tail(url))

\* what the surface does when window.location.href = '...' is injected: it
\* starts loading that document
LoadInjected(target) == IF Mounted /\ target # <<>> THEN NextDocument(page) ELSE page

\* handleDeepLink({ url }): with the WebView there,
\* window.location.href = webAppUrl + '/' + path is injected
HandleDeepLink(url) ==
    /\ Running
    /\ page' = LoadInjected(webAppUrl(dev) \o <<"/">> \o ReplaceScheme(url))
    /\ inputs' = inputs + 1
    /\ UNCHANGED <<navFrame, storeFrame, webToken, channel, authToken, hasError, isLoading,
                   isOffline, canGoBack, currentUrl, pendingInject, init, uiLog>>

\* the listener initializeApp adds with addNotificationResponseReceivedListener:
\* window.location.href = data.url is injected when data.url is there and
\* the WebView is
NotificationResponse(url) ==
    /\ Running
    /\ init.pc \in {"lastResponse", "done"}
    /\ page' = LoadInjected(url)
    /\ inputs' = inputs + 1
    /\ UNCHANGED <<navFrame, storeFrame, webToken, channel, authToken, hasError, isLoading,
                   isOffline, canGoBack, currentUrl, pendingInject, init, uiLog>>

\* the variables initializeApp leaves alone
initFrame == <<navFrame, handlers, secureQ, appQ, secureStore, webToken, channel, hasError,
               isLoading, isOffline, canGoBack, page, pendingInject, uiLog, inputs>>

\* initializeApp: storedToken = await secureStorage.getAuthToken(), which is
\* null when the read fails; setAuthToken(storedToken) when there is one
InitGetAuthToken(ok) ==
    /\ init.pc = "getAuthToken"
    /\ ok \/ failures < MaxFail
    /\ LET storedToken == IF ok THEN getAuthToken ELSE None
       IN  /\ authToken' = IF Truthy(storedToken) THEN storedToken ELSE authToken
           /\ init' = InitRec("register", storedToken, None, None)
    /\ failures' = IF ok THEN failures ELSE failures + 1
    /\ UNCHANGED <<initFrame, appStore, effects, currentUrl>>

\* how registerForPushNotificationsAsync ends: no device, no permission or no
\* Expo token ("unavailable"); the token stored and returned ("granted");
\* appStorage.setPushToken rejecting ("storeFailed"); the token stored and
\* setNotificationChannelAsync rejecting outside the try ("channelFailed")
RegisterOutcomes == {"unavailable", "granted", "storeFailed", "channelFailed"}

\* initializeApp: pushToken = await registerForPushNotificationsAsync(), then
\* sendPushTokenToServer only if (pushToken && storedToken); a rejection goes
\* to the catch of initializeApp
InitRegister(outcome) ==
    /\ init.pc = "register"
    /\ outcome = "storeFailed" => failures < MaxFail
    /\ LET pushToken == IF outcome = "granted" THEN ExpoPushToken ELSE None
           pc == IF outcome = "channelFailed" THEN "failed"
                 ELSE IF Truthy(pushToken) /\ Truthy(init.storedToken) THEN "sendPush"
                 ELSE "lastResponse"
       IN  init' = InitRec(pc, init.storedToken, pushToken, None)
    /\ appStore' = IF outcome \in {"granted", "channelFailed"}
                   THEN [appStore EXCEPT ![PUSH_TOKEN_KEY] = ExpoPushToken]
                   ELSE appStore
    /\ failures' = IF outcome = "storeFailed" THEN failures + 1 ELSE failures
    /\ UNCHANGED <<initFrame, authToken, effects, currentUrl>>

\* sendPushTokenToServer without the test of authToken
InitSendPushTokenUnchecked(ok) ==
    /\ init.pc = "sendPush"
    /\ ok \/ failures < MaxFail
    /\ LET token == IF ok THEN getAuthToken ELSE None
       IN  /\ effects' = Append(effects, Effect(0, "fetch", <<token, init.pushToken>>))
           /\ init' = [init EXCEPT !.pc = "fetch"]
    /\ failures' = IF ok THEN failures ELSE failures + 1
    /\ UNCHANGED <<initFrame, appStore, authToken, currentUrl>>

\* sendPushTokenToServer(pushToken) called by initializeApp: authToken = await
\* secureStorage.getAuthToken(); without one, return false; with one, the
\* fetch is sent
InitSendPushToken(ok) ==
    /\ init.pc = "sendPush"
    /\ ok \/ failures < MaxFail
    /\ LET token == IF ok THEN getAuthToken ELSE None
       IN  IF Truthy(token)
           THEN /\ effects' = Append(effects, Effect(0, "fetch", <<token, init.pushToken>>))
                /\ init' = [init EXCEPT !.pc = "fetch"]
           ELSE /\ effects' = effects
                /\ init' = [init EXCEPT !.pc = "lastResponse", !.sent = "false"]
    /\ failures' = IF ok THEN failures ELSE failures + 1
    /\ UNCHANGED <<initFrame, appStore, authToken, currentUrl>>

\* how the fetch of sendPushTokenToServer ends
FetchOutcomes == {"ok", "notOk", "networkError"}

\* sendPushTokenToServer after await fetch: false when !response.ok and when
\* fetch rejected (the catch), true otherwise
InitSettleFetch(outcome) ==
    /\ init.pc = "fetch"
    /\ init' = [init EXCEPT !.pc = "lastResponse",
                            !.sent = IF outcome = "ok" THEN "true" ELSE "false"]
    /\ UNCHANGED <<initFrame, appStore, authToken, effects, failures, currentUrl>>

\* initializeApp after await notifications.getLastNotificationResponse():
\* setCurrentUrl(webAppUrl + data.url) when a notification with a url opened
\* the app
InitLastResponse(url) ==
    /\ init.pc = "lastResponse"
    /\ currentUrl' = IF url # <<>> THEN webAppUrl(dev) \o url ELSE currentUrl
    /\ init' = [init EXCEPT !.pc = "done"]
    /\ UNCHANGED <<initFrame, appStore, authToken, effects, failures>>

\* the app after construction: the state of useState, the WebView loading
\* config.webAppUrl, initializeApp about to run; the stores hold what an
\* earlier run left
AppInit ==
    /\ dev = FALSE
    /\ strictIPv4 = TRUE
    /\ navLog = <<>>
    /\ opened = <<>>
    /\ \E t \in {None, "t1"} :
          /\ secureStore = [k \in SecureKeys |-> IF k = AUTH_TOKEN_KEY THEN t ELSE None]
          /\ webToken = t
    /\ \E p \in {None, ExpoPushToken} :
          appStore = [k \in AppKeys |-> IF k = PUSH_TOKEN_KEY THEN p ELSE None]
    /\ authToken = None
    /\ channel = <<>>
    /\ handlers = <<>>
    /\ secureQ = <<>>
    /\ appQ = <<>>
    /\ effects = <<>>
    /\ failures = 0
    /\ PageIdle
    /\ hasError = FALSE
    /\ isLoading = TRUE
    /\ isOffline \in BOOLEAN
    /\ canGoBack = FALSE
    /\ currentUrl = webAppUrl(dev)
    /\ page = Document("loading", 1)
    /\ pendingInject = <<>>
    /\ init = InitRec("getAuthToken", None, None, None)
    /\ uiLog = <<>>
    /\ inputs = 0

AppNext ==
    \/ \E ok \in BOOLEAN : InitGetAuthToken(ok)
    \/ \E outcome \in RegisterOutcomes : InitRegister(outcome)
    \/ \E ok \in BOOLEAN : InitSendPushToken(ok)
    \/ \E outcome \in FetchOutcomes : InitSettleFetch(outcome)
    \/ \E url \in NotificationUrls : InitLastResponse(url)
    \/ \E url \in NavUrls(dev), back \in BOOLEAN : HandleNavigationStateChange(url, back)
    \/ HardwareBackPress
    \/ PressExit
    \/ PressCancel
    \/ StartLoad
    \/ FirstScript
    \/ HandleError
    \/ \E statusCode \in StatusCodes : HandleHttpError(statusCode)
    \/ HandleLoadEnd
    \/ InjectAuthToken
    \/ HandleRetry
    \/ NetworkChange
    \/ \E url \in DeepLinks : HandleDeepLink(url)
    \/ \E url \in NotificationUrls : NotificationResponse(url)

SpecApp == AppInit /\ [][AppNext]_vars

\* the hosted application's storage calls, the message bridge and the page
\* loads of the surface, the interface otherwise idle
WebWrites ==
    Cardinality({ h \in DOMAIN handlers : handlers[h].msg.src # "inject" })
        + Cardinality({ i \in DOMAIN channel : channel[i].src # "inject" })

LoadNext ==
    \/ WebWrites < MaxWrites /\ WebSetItem("t2")
    \/ WebWrites < MaxWrites /\ WebRemoveItem
    \/ Deliver
    \/ \E ok \in BOOLEAN : SettleSecure(ok)
    \/ \E ok \in BOOLEAN : SettleApp(ok)
    \/ \E h \in DOMAIN handlers : SettleFetch(h)
    \/ StartLoad
    \/ FirstScript
    \/ HandleLoadEnd
    \/ InjectAuthToken

SpecLoad == MsgInit /\ [][LoadNext]_vars

\* as SpecMsgFair, and a load that started ends and the splash screen hides
SpecLoadFair ==
    /\ SpecLoad
    /\ WF_vars(Deliver)
    /\ WF_vars(\E ok \in BOOLEAN : SettleSecure(ok))
    /\ WF_vars(\E ok \in BOOLEAN : SettleApp(ok))
    /\ WF_vars(\E h \in DOMAIN handlers : SettleFetch(h))
    /\ WF_vars(FirstScript)
    /\ WF_vars(HandleLoadEnd)
    /\ WF_vars(InjectAuthToken)

----------------------------------------------------------------------------
(* Vocabulary of the navigation claims: hosts read label by label *)

\* the labels of a host name
HostLabels(host) == Split(host, ".")

\* the labels with one leading "www" label removed
WithoutWwwLabel(labels) ==
    IF Len(labels) > 1 /\ labels[1] = <<"www">> THEN Tail(labels) ELSE labels

\* sub is domain itself or a name below it
EqualOrSubdomain(sub, domain) ==
    /\ Len(sub) >= Len(domain)
    /\ SubSeq(sub, Len(sub) - Len(domain) + 1, Len(sub)) = domain

ProperSubdomain(sub, domain) ==
    /\ Len(sub) > Len(domain)
    /\ EqualOrSubdomain(sub, domain)

AppDomainLabels(d)  == IF d THEN << <<"localhost">> >> ELSE << <<"trustbuild">>, <<"uk">> >>
ApiDomainLabels(d)  == IF d THEN << <<"localhost">> >>
                       ELSE << <<"api">>, <<"trustbuild">>, <<"uk">> >>
StripeLabels        == << <<"stripe">>, <<"com">> >>
GoogleLabels        == << <<"google">>, <<"com">> >>

\* the hard-coded third-party allow-list: stripe.com and the names below it,
\* and the names below google.com (accounts.google.com among them)
OnAllowList(labels) ==
    \/ EqualOrSubdomain(labels, StripeLabels)
    \/ ProperSubdomain(labels, GoogleLabels)

IsLoopbackHost(host) ==
    host \in { <<"localhost">>, <<"127", ".", "0", ".", "0", ".", "1">> }

\* the host is one the shell keeps inside the surface
TrustedHost(host, d) ==
    LET labels == WithoutWwwLabel(HostLabels(host))
    IN  \/ EqualOrSubdomain(labels, AppDomainLabels(d))
        \/ EqualOrSubdomain(labels, ApiDomainLabels(d))
        \/ IsLoopbackHost(host)
        \/ OnAllowList(labels)

HasDeviceScheme(url) == url # <<>> /\ url[1] \in {"tel:", "mailto:", "sms:"}
HasHttpScheme(url)   == url # <<>> /\ url[1] \in {"http:", "https:"}
ParseableHttp(url)   == HasHttpScheme(url) /\ NewURL(url).ok

Loaded(e)    == e.ret /\ e.opens = <<>>
Delegated(e) == ~e.ret /\ e.opens = <<e.url>>

\* the URLs of the refused requests of a log, in order
RECURSIVE RefusedUrls(_)
RefusedUrls(log) ==
    IF log = <<>> THEN <<>>
    ELSE (IF Head(log).ret THEN <<>> ELSE <<Head(log).url>>) \o RefusedUrls(Tail(log))

\* the index of the request decided last; every request of a behaviour is the
\* latest one in the state that follows its decision
LatestRequest == IF navLog = <<>> THEN {} ELSE {Len(navLog)}

----------------------------------------------------------------------------
(* Claims on the navigation policy, under SpecNav *)

\* C1: suppress-then-delegate.  For every request, openURL is called iff the
\* request is refused, then exactly once and with the requested URL; the URLs
\* handed to the OS are exactly the refused ones, in order, and no URL is both
\* refused and allowed.
C1_SuppressThenDelegate ==
    /\ \A i \in DOMAIN navLog :
          navLog[i].opens = IF navLog[i].ret THEN <<>> ELSE <<navLog[i].url>>
    /\ opened = RefusedUrls(navLog)
    /\ \A i, j \in DOMAIN navLog :
          navLog[i].url = navLog[j].url => navLog[i].ret = navLog[j].ret

C1_Witness ==
    /\ Len(navLog) = 2
    /\ navLog[1].url = <<"https:", "//", "twitter", ".", "com">>
    /\ ~navLog[1].ret
    /\ navLog[2].ret
    /\ opened = <<navLog[1].url>>

\* C2 as stated: every URL whose host is trusted (application or API domain or
\* a name below them after one leading www. is stripped, localhost, 127.0.0.1,
\* the third-party allow-list) is loaded in the surface and not handed to the OS.
C2_TrustedHostLoads ==
    \A i \in LatestRequest :
        LET p == NewURL(navLog[i].url)
        IN  (p.ok /\ TrustedHost(p.hostname, dev)) => Loaded(navLog[i])

\* C2 amended: the same for every URL that does not start with tel:, mailto:
\* or sms: (a device-handler URL is delegated whatever its host).
C2_TrustedHostLoadsUnlessDeviceScheme ==
    \A i \in LatestRequest :
        LET p == NewURL(navLog[i].url)
        IN  (p.ok /\ TrustedHost(p.hostname, dev) /\ ~HasDeviceScheme(navLog[i].url))
                => Loaded(navLog[i])

C2_Witness ==
    /\ ~dev
    /\ Len(navLog) = 2
    /\ navLog[1].url = <<"https:", "//", "m", ".", "trustbuild", ".", "uk">>
    /\ navLog[2].url = <<"https:", "//", "checkout", ".", "stripe", ".", "com">>
    /\ Loaded(navLog[1]) /\ Loaded(navLog[2])

\* C3: every parseable http(s) URL whose host is not trusted is refused and
\* handed to the OS URL handler.
C3_ExternalHttpDelegated ==
    \A i \in LatestRequest :
        LET p == NewURL(navLog[i].url)
        IN  (ParseableHttp(navLog[i].url) /\ ~TrustedHost(p.hostname, dev))
                => Delegated(navLog[i])

C3_Witness ==
    \E i \in LatestRequest :
        /\ navLog[i].url = <<"http:", "//", "twitter", ".", "com", "/", "share">>
        /\ Delegated(navLog[i])

\* the host ends with the characters of a trusted domain, not on a label boundary
BareSuffixOfTrusted(host, d) ==
    \E t \in { StripWww(NewURL(webAppUrl(d)).hostname),
               StripWww(NewURL(apiUrl(d)).hostname),
               <<"stripe", ".", "com">>, <<"google", ".", "com">> } :
        /\ EndsWith(host, t)
        /\ host # t
        /\ ~EndsWith(host, <<".">> \o t)

\* C4: matching is on a label boundary.  A parseable http(s) URL whose host
\* merely ends with the characters of a trusted domain is delegated, and every
\* parseable http(s) URL that is loaded has a host that is trusted label by label.
C4_SuffixExactMatching ==
    \A i \in LatestRequest :
        LET p == NewURL(navLog[i].url)
        IN  ParseableHttp(navLog[i].url) =>
              /\ (BareSuffixOfTrusted(p.hostname, dev) /\ ~TrustedHost(p.hostname, dev))
                    => Delegated(navLog[i])
              /\ navLog[i].ret => TrustedHost(p.hostname, dev)

C4_Witness ==
    \E i \in DOMAIN navLog :
        /\ ~dev
        /\ navLog[i].url = <<"https:", "//", "evil", "trustbuild", ".", "uk">>
        /\ Delegated(navLog[i])

\* C5: every URL starting with tel:, mailto: or sms: is refused and handed to
\* the OS handler, whatever follows the scheme.
C5_DeviceSchemesDelegated ==
    \A i \in LatestRequest :
        HasDeviceScheme(navLog[i].url) => Delegated(navLog[i])

C5_Witness ==
    /\ Len(navLog) = 2
    /\ navLog[1].url = <<"sms:", "//", "trustbuild", ".", "uk">>
    /\ navLog[2].url = <<"tel:">>
    /\ Delegated(navLog[1]) /\ Delegated(navLog[2])

\* C6: every URL that has no device-handler scheme and is not a parseable
\* http(s) URL is loaded in the surface and not handed to the OS.
C6_FailOpen ==
    \A i \in LatestRequest :
        (~HasDeviceScheme(navLog[i].url) /\ ~ParseableHttp(navLog[i].url))
            => Loaded(navLog[i])

C6_Witness ==
    /\ Len(navLog) = 2
    /\ navLog[1].url = <<"https:", "//", "twitter", " ", "com">>
    /\ navLog[2].url = <<"ftp:", "//", "twitter", ".", "com">>
    /\ Loaded(navLog[1]) /\ Loaded(navLog[2])

\* b is a with "www." put before its host
IsWwwVariant(a, b) ==
    /\ Len(a) >= 3
    /\ a[2] = "//"
    /\ \A i \in 1..Len(a) : a[i] # "@"
    /\ b = <<a[1], "//", "www", ".">> \o SubSeq(a, 3, Len(a))

LocalhostIsConfigured(d) ==
    \/ StripWww(NewURL(webAppUrl(d)).hostname) = <<"localhost">>
    \/ StripWww(NewURL(apiUrl(d)).hostname) = <<"localhost">>

----------------------------------------------------------------------------
(* Claims on the message bridge, under SpecMsg *)

\* no message in flight, no native call pending, every handler returned
Quiescent ==
    /\ channel = <<>>
    /\ secureQ = <<>>
    /\ appQ = <<>>
    /\ \A h \in DOMAIN handlers : handlers[h].pc = "done"

\* every message came from the bridge's storage wrappers
OnlyStorageOperations ==
    \A h \in DOMAIN handlers : handlers[h].msg.src \in {"setItem", "removeItem"}

\* C8: message ordering.  When a NAVIGATE load command is issued, the token of
\* every AUTH_TOKEN message delivered before that NAVIGATE has been persisted
\* and mirrored; and the effects of two delivered messages never occur in the
\* reverse of delivery order.
C8_EffectsInDeliveryOrder ==
    /\ \A i \in DOMAIN effects :
          effects[i].kind = "injectJavaScript" =>
              \A h \in 1..(effects[i].h - 1) :
                  (handlers[h].msg.type = "AUTH_TOKEN" /\ Truthy(handlers[h].msg.token)) =>
                      \E k \in 1..(i - 1) :
                          effects[k] = Effect(h, "setAuthToken", handlers[h].msg.token)
    /\ \A i, j \in DOMAIN effects : i < j => effects[i].h <= effects[j].h

\* C9: write-through mirror.  After any sequence of token writes and removals
\* in the web content, once every handler has completed without a storage
\* failure, the secure-store token and the mirror equal the value of the last
\* web-side operation.
C9_WriteThroughMirror ==
    (Quiescent /\ failures = 0 /\ handlers # <<>> /\ OnlyStorageOperations) =>
        /\ secureStore[AUTH_TOKEN_KEY] = webToken
        /\ authToken = webToken

\* C10: after a LOGOUT message is handled, with at most one store call failing,
\* the secure store holds neither token, the general store holds neither user
\* data nor push token, and getAuthToken() returns empty.
C10_LogoutClearsStores ==
    ( /\ Quiescent
      /\ handlers # <<>>
      /\ \A h \in DOMAIN handlers : handlers[h].msg.type = "LOGOUT"
      /\ failures <= 1 ) =>
        /\ \A k \in SecureKeys : secureStore[k] = None
        /\ \A k \in AppKeys : appStore[k] = None
        /\ getAuthToken = None

\* the calls of a queue that handler h issued with operation op
PendingCalls(q, h, op) == { i \in DOMAIN q : q[i].h = h /\ q[i].op = op }

IsLogout(h) == h \in DOMAIN handlers /\ handlers[h].msg.type = "LOGOUT"

\* a LOGOUT handler is waiting for a clear it has started, or has cleared the mirror
LogoutProgress ==
    \A h \in DOMAIN handlers :
        IsLogout(h) =>
            \/ /\ handlers[h].pc = "secureClearAll"
               /\ PendingCalls(secureQ, h, "deleteItem") # {}
            \/ /\ handlers[h].pc = "appClearAll"
               /\ PendingCalls(appQ, h, "multiRemove") # {}
            \/ /\ handlers[h].pc = "done"
               /\ \E i \in DOMAIN effects : effects[i] = Effect(h, "setAuthToken", None)

\* C11: a storage failure during LOGOUT is absorbed.  Whatever store call
\* fails, a LOGOUT handler goes on from the secure-store clear to the
\* general-store clear and from there to setAuthToken(null); it never returns
\* without having cleared the mirror, and every delivered LOGOUT eventually
\* clears it.
C11_LogoutAbsorbsStorageFailure ==
    /\ []LogoutProgress
    /\ \A h \in 1..MaxMsgs :
          IsLogout(h) ~> (\E i \in DOMAIN effects : effects[i] = Effect(h, "setAuthToken", None))

\* a LOGOUT whose secure-store deletion failed has gone on to clear the
\* general store and the mirror
C11_Witness ==
    /\ failures = 1
    /\ Len(handlers) = 1
    /\ IsLogout(1)
    /\ handlers[1].pc = "done"
    /\ effects = <<Effect(1, "multiRemove", None), Effect(1, "setAuthToken", None)>>
    /\ authToken = None

\* handler h handles an AUTH_TOKEN message that carries a token
IsAuthToken(h) ==
    /\ h \in DOMAIN handlers
    /\ handlers[h].msg.type = "AUTH_TOKEN"
    /\ Truthy(handlers[h].msg.token)

\* the push-registration request of handler h has been sent
FetchBy(h, effs) == \E i \in DOMAIN effs : effs[i].h = h /\ effs[i].kind = "fetch"

\* no message delivered after h writes or clears the session
LatestSessionMessage(h) ==
    \A g \in DOMAIN handlers : g > h => ~IsAuthToken(g) /\ ~IsLogout(g)

\* C12: when the handler of an AUTH_TOKEN message carrying a token completes,
\* no store call has failed and no later message has written or cleared the
\* session, the secure-store token and the mirror equal the payload token, and
\* the push-registration request has been sent exactly when the handler found
\* a push token in general storage.
C12_AuthTokenPostcondition ==
    [][ \A h \in DOMAIN handlers :
          ( /\ IsAuthToken(h)
            /\ LatestSessionMessage(h)
            /\ handlers[h].pc # "done"
            /\ handlers'[h].pc = "done"
            /\ failures' = 0 )
          => /\ secureStore'[AUTH_TOKEN_KEY] = handlers[h].msg.token
             /\ authToken' = handlers[h].msg.token
             /\ FetchBy(h, effects') <=> Truthy(handlers'[h].pushToken) ]_vars

\* the same of an AUTH_TOKEN message that is the only one handled so far
AuthTokenHandledAlone ==
    ( /\ Len(handlers) = 1
      /\ IsAuthToken(1)
      /\ handlers[1].pc = "done"
      /\ failures = 0 )
    => /\ secureStore[AUTH_TOKEN_KEY] = handlers[1].msg.token
       /\ authToken = handlers[1].msg.token
       /\ FetchBy(1, effects) <=> Truthy(appStore[PUSH_TOKEN_KEY])

MessageTypes == {"AUTH_TOKEN", "LOGOUT", "SHARE", "OPEN_EXTERNAL", "NAVIGATE"}

\* a raw message that is not JSON or whose parsed value has no recognised type
Unrecognised(m) == ~m.json \/ m.value # "object" \/ m.type \notin MessageTypes

\* C13: the delivery of a message that is not JSON, or whose parsed value
\* (null, a number, a string, an object of another type) has no recognised
\* type, returns at once without rejecting, starts no store call, and leaves
\* secure store, general store, mirror, OS URL handler and surface untouched.
C13_UnrecognisedIsDiscarded ==
    [][ ( /\ channel # <<>>
          /\ Unrecognised(Head(channel))
          /\ Len(handlers') = Len(handlers) + 1 )
        => /\ handlers'[Len(handlers')].pc = "done"
           /\ UNCHANGED <<secureStore, appStore, authToken, opened, effects,
                          secureQ, appQ>> ]_vars

C13_Witness ==
    /\ Len(handlers) = 2
    /\ handlers[1].msg = JsonPrimitive("null")
    /\ handlers[2].msg = NotJson
    /\ handlers[1].pc = "done" /\ handlers[2].pc = "done"
    /\ effects = <<>> /\ opened = <<>> /\ secureQ = <<>> /\ appQ = <<>>

EffectsBy(h) == { i \in DOMAIN effects : effects[i].h = h }

\* the AUTH_TOKEN handler g returned from its catch: its secure-store write
\* failed and it did nothing else
FailedWrite(g) ==
    /\ IsAuthToken(g)
    /\ handlers[g].pc = "done"
    /\ EffectsBy(g) = {}

\* what handling the message of handler h does when nothing else interferes
NormalEffect(h) ==
    LET m == handlers[h].msg
    IN  CASE IsAuthToken(h) ->
               /\ secureStore[AUTH_TOKEN_KEY] = m.token
               /\ authToken = m.token
               /\ FetchBy(h, effects) <=> Truthy(appStore[PUSH_TOKEN_KEY])
          [] IsLogout(h) ->
               /\ \A k \in SecureKeys : secureStore[k] = None
               /\ \A k \in AppKeys : appStore[k] = None
               /\ authToken = None
          [] m.type = "OPEN_EXTERNAL" /\ Truthy(m.url) ->
               /\ opened = <<m.url>>
               /\ EffectsBy(h) # {}
          [] m.type = "NAVIGATE" /\ Truthy(m.url) ->
               \E i \in EffectsBy(h) :
                   effects[i] = Effect(h, "injectJavaScript", LoadScript(m.url))
          [] OTHER -> EffectsBy(h) = {}

\* C14: handler independence.  No handler's promise rejects; and when the
\* secure-store write of every earlier AUTH_TOKEN message has failed, the
\* message delivered after them is handled with its normal effect.
C14_HandlerIndependence ==
    /\ \A h \in DOMAIN handlers : handlers[h].pc # "rejected"
    /\ \A h \in DOMAIN handlers :
          ( /\ Quiescent
            /\ h = Len(handlers)
            /\ h > 1
            /\ \A g \in 1..(h - 1) : FailedWrite(g)
            /\ failures = h - 1 )
          => NormalEffect(h)

C14_Witness ==
    /\ Quiescent
    /\ Len(handlers) = 2
    /\ FailedWrite(1)
    /\ failures = 1
    /\ IsAuthToken(2)
    /\ handlers[2].msg.token = "t2"
    /\ secureStore[AUTH_TOKEN_KEY] = "t2"
    /\ authToken = "t2"

\* handler h has started no store call that is still pending
NoPendingCalls(h) ==
    /\ \A i \in DOMAIN secureQ : secureQ[i].h # h
    /\ \A i \in DOMAIN appQ : appQ[i].h # h

\* handler h returned at once and did nothing
NoOp(h) == handlers[h].pc = "done" /\ EffectsBy(h) = {} /\ NoPendingCalls(h)

\* a message of a recognised type without its payload field is a no-op
MissingFieldIsNoOp ==
    \A h \in DOMAIN handlers :
        LET m == handlers[h].msg
        IN  /\ (m.type \in {"OPEN_EXTERNAL", "NAVIGATE"} /\ ~Truthy(m.url)) => NoOp(h)
            /\ (m.type = "SHARE" /\ ~Truthy(m.url) /\ ~Truthy(m.text)) => NoOp(h)
            /\ (m.type = "AUTH_TOKEN" /\ ~Truthy(m.token)) => NoOp(h)

\* OPEN_EXTERNAL with a url calls openURL(payload.url), once
OpenExternalOpensUrl ==
    \A h \in DOMAIN handlers :
        LET m == handlers[h].msg
        IN  (m.type = "OPEN_EXTERNAL" /\ Truthy(m.url)) =>
                /\ \A i \in EffectsBy(h) : effects[i] = Effect(h, "openURL", m.url)
                /\ Cardinality(EffectsBy(h)) = 1
                /\ \E i \in DOMAIN opened : opened[i] = m.url

\* C15: a message of a recognised type without its payload field is a no-op;
\* OPEN_EXTERNAL with a url hands payload.url to the OS handler, and NAVIGATE
\* with a url injects one script, which makes the surface load payload.url.
C15_PayloadFieldDecides ==
    /\ MissingFieldIsNoOp
    /\ OpenExternalOpensUrl
    /\ \A h \in DOMAIN handlers :
          LET m == handlers[h].msg
          IN  (m.type = "NAVIGATE" /\ Truthy(m.url)) =>
                  /\ Cardinality(EffectsBy(h)) = 1
                  /\ \A i \in EffectsBy(h) :
                        /\ effects[i].kind = "injectJavaScript"
                        /\ EvaluatedLocation(effects[i].val) = UrlText(m.url)

\* C16: every handled SHARE message that carries a url or a text has handed
\* its payload to the native sharing facility.
C16_ShareForwarded ==
    \A h \in DOMAIN handlers :
        LET m == handlers[h].msg
        IN  (m.type = "SHARE" /\ (Truthy(m.url) \/ Truthy(m.text))) =>
                \E i \in EffectsBy(h) :
                    effects[i] = Effect(h, "share", <<m.url, m.text>>)

----------------------------------------------------------------------------
(* Claims on the bridge script inside the page, under SpecWeb *)

\* the calls of the storage wrappers on key
StorageCalls(key) ==
    { i \in DOMAIN webLog : webLog[i].fn \in {"setItem", "removeItem"} /\ webLog[i].key = key }

\* the envelopes posted by the calls of a log, in order
RECURSIVE PostedBy(_)
PostedBy(log) == IF log = <<>> THEN <<>> ELSE Head(log).posted \o PostedBy(Tail(log))

\* C17: the setItem wrapper only observes.  Every write to 'auth_token'
\* reaches the original setItem, also when forwarding throws, and a write
\* whose forwarding does not throw has posted one AUTH_TOKEN envelope with
\* the new value.
C17_WriteOnlyObserved ==
    \A i \in StorageCalls(AUTH_TOKEN_KEY) :
        webLog[i].fn = "setItem" =>
            /\ webLog[i].original
            /\ ~webLog[i].threw =>
                  webLog[i].posted =
                      <<Envelope("AUTH_TOKEN", JsonToken(webLog[i].value), None, None, "setItem")>>

\* what the original functions leave in localStorage for key after the calls
\* of the log
RECURSIVE StoredAfter(_, _)
StoredAfter(key, log) ==
    IF log = <<>> THEN None
    ELSE LET c == log[Len(log)]
         IN  IF c.fn \in {"setItem", "removeItem"} /\ c.key = key /\ ~c.threw
             THEN (IF c.fn = "setItem" THEN StoredText(c.value) ELSE None)
             ELSE StoredAfter(key, SubSeq(log, 1, Len(log) - 1))

\* C18: every removal of 'auth_token' posts exactly one LOGOUT envelope and
\* performs the original removal; writes and removals of another key post
\* nothing and have the effect of the original functions.
C18_RemovalForwardsLogout ==
    /\ \A i \in StorageCalls(AUTH_TOKEN_KEY) :
          webLog[i].fn = "removeItem" =>
              /\ webLog[i].posted = <<Envelope("LOGOUT", None, None, None, "removeItem")>>
              /\ webLog[i].original
              /\ ~webLog[i].threw
    /\ \A key \in WebKeys \ {AUTH_TOKEN_KEY} :
          /\ \A i \in StorageCalls(key) :
                webLog[i].posted = <<>> /\ webLog[i].original /\ ~webLog[i].threw
          /\ localStorage[key] = StoredAfter(key, webLog)
    /\ localStorage[AUTH_TOKEN_KEY] = StoredAfter(AUTH_TOKEN_KEY, webLog)
    /\ channel = PostedBy(webLog)
    /\ Cardinality({ i \in DOMAIN channel : channel[i].type = "LOGOUT" })
          = Cardinality({ i \in StorageCalls(AUTH_TOKEN_KEY) : webLog[i].fn = "removeItem" })

C18_Witness ==
    /\ Len(webLog) = 2
    /\ webLog[1].fn = "removeItem" /\ webLog[1].key = AUTH_TOKEN_KEY
    /\ webLog[2].fn = "removeItem" /\ webLog[2].key = "theme"
    /\ channel = <<Envelope("LOGOUT", None, None, None, "removeItem")>>

\* the calls of window.open with a url
OpenCalls == { i \in DOMAIN webLog : webLog[i].fn = "open" /\ webLog[i].value # <<>> }

\* the call assigned its url to location.href and posted nothing
NavigatedOnly(c) == c.href = c.value /\ c.posted = <<>>

\* the call posted one OPEN_EXTERNAL envelope with its url and left location alone
ForwardedOnly(c) ==
    /\ c.href = <<>>
    /\ c.posted = <<Envelope("OPEN_EXTERNAL", None, c.value, None, "openExternal")>>

\* C19: every call of window.open with a url returns null without throwing,
\* never reaches the original window.open, and either assigns the url to
\* location.href or posts one OPEN_EXTERNAL envelope with it, never both; a
\* url that does not parse is forwarded, a url on the page's own host is
\* navigated to.
C19_OpenNavigatesOrForwards ==
    \A i \in OpenCalls :
        LET c      == webLog[i]
            urlObj == NewURLWithBase(c.value, PageOrigin(pageHost))
        IN  /\ c.null /\ ~c.threw /\ ~c.original
            /\ NavigatedOnly(c) \/ ForwardedOnly(c)
            /\ ~(NavigatedOnly(c) /\ ForwardedOnly(c))
            /\ ~urlObj.ok => ForwardedOnly(c)
            /\ (urlObj.ok /\ StripWww(urlObj.hostname) = StripWww(pageHost))
                  => NavigatedOnly(c)
            /\ i = Len(webLog) =>
                  /\ NavigatedOnly(c) => location = c.value
                  /\ ForwardedOnly(c) => channel # <<>> /\ channel[Len(channel)] = c.posted[1]

C19_Witness ==
    /\ Len(webLog) = 2
    /\ webLog[1].fn = "open" /\ webLog[2].fn = "open"
    /\ webLog[1].value = <<"https:", "//", "twitter", " ", "com">>
    /\ ForwardedOnly(webLog[1])
    /\ webLog[2].value = <<"/", "jobs">>
    /\ NavigatedOnly(webLog[2])
    /\ location = <<"/", "jobs">>
    /\ Len(channel) = 1

\* the clicks on links with target _blank and an href
BlankClicks ==
    { j \in DOMAIN webLog :
        webLog[j].fn = "click" /\ webLog[j].key = "_blank" /\ webLog[j].value # <<>> }

\* the call kept its url inside the surface
TreatedAsInternal(c) == c.href # <<>>

\* the url parses and its host, without a leading www., is the page's host
\* without a leading www. or a name below it
OnPageHost(url) ==
    LET urlObj == NewURLWithBase(url, PageOrigin(pageHost))
    IN  /\ urlObj.ok
        /\ EqualOrSubdomain(WithoutWwwLabel(HostLabels(urlObj.hostname)),
                            WithoutWwwLabel(HostLabels(pageHost)))

\* the url parses and its host, without a leading www., is stripe.com or a
\* name below it
OnStripe(url) ==
    LET urlObj == NewURLWithBase(url, PageOrigin(pageHost))
    IN  /\ urlObj.ok
        /\ EqualOrSubdomain(WithoutWwwLabel(HostLabels(urlObj.hostname)), StripeLabels)

\* C20 as stated: window.open and the click listener classify every target
\* alike, as internal exactly when its host is the page's host or a name below
\* it after a leading www. is stripped.
C20_SameClassification ==
    /\ \A i \in OpenCalls, j \in BlankClicks :
          webLog[i].value = webLog[j].value =>
              (TreatedAsInternal(webLog[i]) <=> TreatedAsInternal(webLog[j]))
    /\ \A i \in OpenCalls \cup BlankClicks :
          TreatedAsInternal(webLog[i]) <=> OnPageHost(webLog[i].value)

\* C20 amended: the click listener treats a target as internal exactly when
\* its host is the page's host or a name below it; window.open treats it as
\* internal exactly when the click listener would or the host is stripe.com
\* or a name below it.
C20_SameClassificationExceptStripe ==
    /\ \A i \in OpenCalls, j \in BlankClicks :
          webLog[i].value = webLog[j].value =>
              (TreatedAsInternal(webLog[i]) <=>
                  (TreatedAsInternal(webLog[j]) \/ OnStripe(webLog[i].value)))
    /\ \A j \in BlankClicks :
          TreatedAsInternal(webLog[j]) <=> OnPageHost(webLog[j].value)
    /\ \A i \in OpenCalls :
          TreatedAsInternal(webLog[i]) <=>
              (OnPageHost(webLog[i].value) \/ OnStripe(webLog[i].value))

C20_Witness ==
    /\ pageHost = <<"www", ".", "trustbuild", ".", "uk">>
    /\ Len(webLog) = 2
    /\ 1 \in OpenCalls /\ 2 \in BlankClicks
    /\ webLog[1].value = <<"https:", "//", "api", ".", "trustbuild", ".", "uk">>
    /\ webLog[2].value = webLog[1].value
    /\ TreatedAsInternal(webLog[1]) /\ TreatedAsInternal(webLog[2])

\* C21: bridge-script idempotence.  However often the bridge script has run
\* in the context, one write to 'auth_token' posts exactly one AUTH_TOKEN
\* envelope (unless forwarding throws), one removal exactly one LOGOUT, and
\* one window.open at most one OPEN_EXTERNAL.
C21_NoStackedForwarding ==
    \A i \in DOMAIN webLog :
        LET c == webLog[i]
        IN  /\ (c.fn = "setItem" /\ c.key = AUTH_TOKEN_KEY /\ ~c.threw) => Len(c.posted) = 1
            /\ (c.fn = "removeItem" /\ c.key = AUTH_TOKEN_KEY) => Len(c.posted) = 1
            /\ c.fn = "open" => Len(c.posted) <= 1

----------------------------------------------------------------------------
(* Claims on the page loads of the surface, under SpecLoad *)

\* the step in which the hosted application's first script runs
FirstScriptRuns == page.st = "loading" /\ page'.st = "scripted"

\* C22: round-trip re-injection.  When a document is loaded while the secure
\* store holds a token, the shell has injected the token into that document's
\* storage before the hosted application's first script runs.
C22_InjectedBeforeFirstScript ==
    [][ (FirstScriptRuns /\ Truthy(getAuthToken)) => page.injected ]_vars

\* a LOGOUT has been delivered and the hosted application has written no
\* token since
LoggedOut ==
    \E h \in DOMAIN handlers :
        /\ IsLogout(h)
        /\ \A g \in DOMAIN handlers :
              (g > h /\ handlers[g].msg.type = "AUTH_TOKEN") => handlers[g].msg.src = "inject"
        /\ \A i \in DOMAIN channel :
              channel[i].type = "AUTH_TOKEN" => channel[i].src = "inject"

\* C26: no logout resurrection.  Once a LOGOUT has been delivered (and the
\* hosted application has written no token since), a load-end event queues no
\* injection of a token, wherever the LOGOUT handler stands in its clears.
C26_NoInjectionAfterLogout ==
    [][ LoggedOut => Len(pendingInject') <= Len(pendingInject) ]_vars

----------------------------------------------------------------------------
(* Claims on the interface of the shell, under SpecApp *)

\* what the step appended to the interface history
Did(ev) == Len(uiLog') = Len(uiLog) + 1 /\ uiLog'[Len(uiLog')].ev = ev

\* the step is a press of the hardware back button
BackPressStep == inputs' # inputs /\ uiLog' # uiLog

\* C23 as stated: a back press asks the surface to go back exactly when
\* canGoBack is true and shows the exit confirmation exactly when it is
\* false, never both, and the app exits only from a confirmation.
C23_BackByCanGoBack ==
    [][ /\ BackPressStep => /\ Did("goBack") <=> canGoBack
                            /\ Did("alert") <=> ~canGoBack
        /\ Did("exitApp") => ~BackPressStep /\ OpenAlerts > 0 ]_vars

\* C23, amended: a back press asks the surface to go back exactly when
\* canGoBack is true and the WebView is mounted, and shows the exit
\* confirmation in every other case (on the error screen whatever canGoBack
\* is); never both; the app exits only from the 'Exit' button of a
\* confirmation that is showing.
C23_BackByCanGoBackWhenMounted ==
    [][ /\ BackPressStep => /\ Did("goBack") <=> (canGoBack /\ Mounted)
                            /\ Did("alert") <=> ~(canGoBack /\ Mounted)
                            /\ ~(Did("goBack") /\ Did("alert"))
        /\ Did("exitApp") => ~BackPressStep /\ OpenAlerts > 0 ]_vars

\* on the error screen, the surface having reported canGoBack, a back press
\* showed the confirmation and 'Exit' ended the app
C23_Witness ==
    /\ canGoBack /\ ~Mounted
    /\ uiLog = <<Ui("alert", None), Ui("exitApp", None)>>

\* the step changes the navigation state
NavigationStateChanges == canGoBack' # canGoBack \/ currentUrl' # currentUrl

\* the step is a navigation event, which sets the state to what it reports
NavigationEvent ==
    \E url \in NavUrls(dev), back \in BOOLEAN : HandleNavigationStateChange(url, back)

\* C24 as stated: only a navigation event changes canGoBack or currentUrl.
C24_OnlyNavigationEvents ==
    [][ NavigationStateChanges => NavigationEvent ]_vars

\* C24, amended: canGoBack and currentUrl change only on a navigation event,
\* which sets them to the reported values, and in initializeApp, which sets
\* currentUrl to webAppUrl + data.url when a notification carrying a url
\* opened the app; canGoBack changes on navigation events only.
C24_NavigationEventsAndLaunchNotification ==
    [][ /\ NavigationStateChanges =>
              \/ NavigationEvent
              \/ \E url \in NotificationUrls : InitLastResponse(url) /\ url # <<>>
        /\ canGoBack' # canGoBack => NavigationEvent ]_vars

\* initializeApp has replaced the url the surface reported
C24_Witness ==
    /\ init.pc = "done"
    /\ inputs > 0
    /\ canGoBack
    /\ currentUrl = webAppUrl(dev) \o <<"/", "jobs">>

\* C25: a load failure is fail-stop.  Once hasError is set, only the retry
\* clears it; a load-end event does not.
C25_ErrorUntilRetry ==
    [][ (hasError /\ ~hasError') => HandleRetry ]_vars

----------------------------------------------------------------------------
(* Claims on the push token and on the token's echo *)

\* the multiRemove of the LOGOUT handler g has removed the stored keys
ClearedGeneralStorage(g) ==
    IsLogout(g) /\ \E i \in DOMAIN effects : effects[i] = Effect(g, "multiRemove", None)

WriteFails(h) ==
    /\ IsAuthToken(h)
    /\ handlers[h].pc = "setAuthToken"
    /\ secureQ # <<>>
    /\ Head(secureQ).h = h
    /\ secureQ' = Tail(secureQ)
    /\ failures' = failures + 1

\* C28: a failed token write leaves the session unchanged.  When the
\* secure-store write of an AUTH_TOKEN handler fails, the handler returns
\* (the error is absorbed), the mirror and the stores are as before, no
\* general-storage read and no push-registration request is started, then or
\* later.
C28_FailedWriteChangesNothing ==
    [][ /\ \A h \in DOMAIN handlers :
              WriteFails(h) => /\ handlers'[h].pc = "done"
                               /\ authToken' = authToken
                               /\ secureStore' = secureStore
                               /\ appStore' = appStore
                               /\ appQ' = appQ
                               /\ effects' = effects
        /\ ( \A h \in DOMAIN handlers : FailedWrite(h) => NoPendingCalls(h) )' ]_vars

\* the write of t2 failed in a session of t1 that has a push token
C28_Witness ==
    /\ Len(handlers) = 1
    /\ FailedWrite(1)
    /\ handlers[1].msg.token = "t2"
    /\ failures = 1
    /\ authToken = "t1"
    /\ secureStore[AUTH_TOKEN_KEY] = "t1"
    /\ appStore[PUSH_TOKEN_KEY] = ExpoPushToken
    /\ effects = <<>>

\* the push-registration requests sent so far
PushRequests == { i \in DOMAIN effects : effects[i].kind = "fetch" }

\* C29: the push token is sent only for a session.  At app start
\* sendPushTokenToServer is called only with a push token and a stored auth
\* token; it sends no request and returns false when it reads no auth token
\* (none stored, or the read fails); every request carries the stored auth
\* token; it returns true only for a response that is ok and false for any
\* other end of the request; it never throws into initializeApp.
C29_PushTokenOnlyWithSession ==
    [][ /\ ( /\ \A i \in PushRequests : Truthy(effects[i].val[1]) /\ Truthy(effects[i].val[2])
             /\ (init.pc \in {"sendPush", "fetch"} \/ init.sent # None)
                  => Truthy(init.pushToken) /\ Truthy(init.storedToken) )'
        /\ init.pc \in {"sendPush", "fetch"} => init'.pc # "failed"
        /\ (init.pc = "sendPush" /\ init'.pc = "fetch")
              => /\ failures' = failures
                 /\ effects' = Append(effects, Effect(0, "fetch",
                                                      <<getAuthToken, init.pushToken>>))
        /\ (init.pc = "sendPush" /\ init'.pc # "sendPush" /\ init'.pc # "fetch")
              => /\ init'.sent = "false"
                 /\ effects' = effects
                 /\ failures' = failures + 1 \/ ~Truthy(getAuthToken)
        /\ (init.pc = "fetch" /\ init'.pc # "fetch")
              => /\ init'.sent \in {"true", "false"}
                 /\ init'.sent = "true" <=> InitSettleFetch("ok")
                 /\ effects' = effects ]_vars

\* the app started with a session, registration gave a push token, the
\* request was sent and the response was ok
C29_Witness ==
    /\ init.pc = "done"
    /\ init.sent = "true"
    /\ effects = <<Effect(0, "fetch", <<"t1", ExpoPushToken>>)>>

\* handler h handles the echo of an injection
IsEcho(h) == h \in DOMAIN handlers /\ handlers[h].msg.src = "inject"

\* the messages posted so far by injections
EchoMessages ==
    Cardinality({ h \in DOMAIN handlers : handlers[h].msg.src = "inject" })
        + Cardinality({ i \in DOMAIN channel : channel[i].src = "inject" })

\* C30: token re-injection quiesces.  A load end queues at most one
\* injection and nothing else queues one; an injection posts one AUTH_TOKEN
\* echo carrying the injected value; the handler of an echo leaves a
\* secure-store token and a mirror that hold that value as they are and queues
\* no injection; each document loaded accounts for at most one echo; and every
\* echo is followed by a state in which no message, call or injection is
\* pending.
C30_ReinjectionQuiesces ==
    /\ [][ /\ Len(pendingInject') <= Len(pendingInject) + 1
           /\ Len(pendingInject') > Len(pendingInject)
                 => page.st # "loaded" /\ page'.st = "loaded"
           /\ Len(pendingInject') < Len(pendingInject)
                 => \/ channel' = channel
                    \/ channel' = Append(channel, Envelope("AUTH_TOKEN", Head(pendingInject),
                                                          None, None, "inject"))
           /\ \A h \in DOMAIN handlers :
                 (IsEcho(h) /\ handlers'[h] # handlers[h]
                    /\ secureStore[AUTH_TOKEN_KEY] = handlers[h].msg.token
                    /\ authToken = handlers[h].msg.token)
                 => /\ secureStore'[AUTH_TOKEN_KEY] = handlers[h].msg.token
                    /\ authToken' = handlers[h].msg.token
                    /\ pendingInject' = pendingInject
           /\ (EchoMessages + Len(pendingInject) <= page.n)' ]_vars
    /\ (\E h \in DOMAIN handlers : IsEcho(h) /\ handlers[h].pc # "done")
          ~> (Quiescent /\ pendingInject = <<>>)

\* a document was loaded in a session with a push token: the load end
\* injected the token once, the echo was handled (and repeated the
\* push-registration request), and the session is as it was
C30_Witness ==
    /\ Quiescent /\ pendingInject = <<>>
    /\ Len(handlers) = 1
    /\ IsEcho(1)
    /\ FetchBy(1, effects)
    /\ page = [Document("loaded", 2) EXCEPT !.injected = TRUE]
    /\ authToken = "t1"
    /\ secureStore[AUTH_TOKEN_KEY] = "t1"
    /\ webToken = "t1"

\* the navigation requests of the surface, all of them started by the bridge
InPlaceRequests == DOMAIN navLog

\* C31: bridge and navigation policy agree on what stays inside.  On a page
\* the policy loaded, every url that window.open or the click listener
\* assigns to location.href is one shouldStartLoadWithRequest returns true
\* for: no navigation chosen by the bridge is refused and handed to the OS.
C31_InPlaceIsLoadedByPolicy ==
    \A i \in InPlaceRequests :
        /\ navLog[i].ret
        /\ navLog[i].opens = <<>>

\* the part of C31 the code keeps: a target with another scheme than tel:,
\* mailto: or sms:, on a page that is not on localhost, is loaded
C31_WebTargetsOffLocalhostAreLoaded ==
    \A i \in InPlaceRequests :
        \/ navLog[i].ret /\ navLog[i].opens = <<>>
        \/ IsDeviceScheme(navLog[i].url)
        \/ StripWww(NewURL(navLog[i].url).hostname) = <<"localhost">>

\* a link to mailto://m@trustbuild.uk on the application's page: navigated in
\* place by the bridge, refused and handed to the OS by the policy
C31_RefusedAfterInPlace ==
    /\ ~dev
    /\ Len(webLog) = 1 /\ Len(navLog) = 1
    /\ webLog[1].fn = "click"
    /\ webLog[1].href = <<"mailto:", "//", "m", "@", "trustbuild", ".", "uk">>
    /\ ~navLog[1].ret
    /\ navLog[1].opens = <<webLog[1].href>>

====
